---------------------------- MODULE Spec2Model ----------------------------
(***************************************************************************)
(* Verification model of the enterprise2 deployment layer:                 *)
(*   - the workflow-tool (n8n) owner bootstrapper                          *)
(*       deploy/hooks/n8n/shukcity/stage/post-init/bootstrap.py            *)
(*   - the helpdesk ticket extension                                       *)
(*       odoo/addons/custom/helpdesk_custom/models/helpdesk_ticket.py      *)
(*   - the configuration-parameter setter of the credential provisioner    *)
(*       deploy/hooks/n8n/shukcity/dev/post-init/connect-odoo.py           *)
(* Each component has its own specifications (SpecBoot; SpecAssign,        *)
(* SpecCmds and SpecMatch for the ticket; SpecParam) over the shared       *)
(* variable tuple; the variables of the other components stay idle.        *)
(***************************************************************************)
EXTENDS Integers, Sequences, FiniteSets, TLC

VARIABLES
    \* ---- workflow-tool bootstrapper (bootstrap.py main) ----
    pc,          \* position of main()
    now,         \* time.time() in whole seconds; the origin moves to 0 when
                 \* a timed wait outside the candidate loop starts or ends
    total_wait,  \* int(N8N_BOOTSTRAP_WAIT_SECONDS)
    deadline,    \* main's global deadline
    cand,        \* index of the candidate of the for loop
    base_url,    \* index of the chosen candidate, 0 for ""
    settings,    \* the settings payload main() holds
    wfr,         \* frame of the running _wait_for_ready call
    err,         \* the HTTPError caught by the handler of line 228
    post_idx,    \* which of the three primary POSTs is next
    path_idx,    \* index into the fallback probe paths
    posts,       \* log: the POST requests issued, in order
    conflict,    \* log: a setup attempt was answered 409 + "already"
    seen_shape,  \* log: which payload the wait of line 152 returned, 0 if none
    answer,      \* log: what the last POST gave: status or error code, and
                 \* the message of a 400/409
    rechecked,   \* log: which payload a re-check of the settings returned
    exit_code    \* main's return value, -1 while running

bootVars == <<pc, now, total_wait, deadline, cand, base_url, settings, wfr,
              err, post_idx, path_idx, posts, conflict, seen_shape,
              answer, rechecked, exit_code>>

VARIABLES
    \* ---- helpdesk ticket extension ----
    slas,        \* ids of the helpdesk.sla rows that exist
    ticket,      \* the ticket record, NoTicket before the first create
    statuses,    \* ticket.sla_status_ids: [sla |-> id, reached |-> flag]
    form,        \* the form opened on the ticket: the record being edited
                 \* and the domains its onchanges returned; NoForm if closed
    last         \* log of the last create / write / onchange call

ticketVars == <<slas, ticket, statuses, form, last>>

VARIABLES
    \* ---- configuration-parameter setter (connect-odoo.py) ----
    icp,         \* ir.config_parameter: key -> row, NotStored if unset
    ep_log       \* log: key -> the last _ensure_param call on the key

paramVars == <<icp, ep_log>>

VARIABLES
    \* ---- credential provisioner (connect-odoo.py main) ----
    env_name,    \* TARGET_ENV_NAME of the runs
    tier,        \* TARGET_TIER of the runs
    api_model,   \* what env["res.users.apikey"] offers in this ERP version
    secrets,     \* key in the file at _secrets_path(env_name, tier), 0: none
    secrets_container,  \* key in the file at _container_secrets_path(...)
    apikeys,     \* rows of the API key model for the technical user
    n8n_user,    \* the technical user exists
    next_key,    \* the next key value the generator yields
    run          \* log of the last run of main()

provVars == <<env_name, tier, api_model, secrets, secrets_container, apikeys,
              n8n_user, next_key, run>>

VARIABLES
    \* ---- module installer (install_modules.py main) ----
    modules_txt,   \* install-modules.txt: whether it exists, and its lines
    inst_db,       \* TARGET_DB_NAME or PGDATABASE, <<>> when neither is set
    mod_state,     \* ir.module.module: the state of each known module
    inst           \* log of the last run of main()

instVars == <<modules_txt, inst_db, mod_state, inst>>

VARIABLES
    \* ---- ERP bootstrapper (odoo bootstrap.py main) ----
    bs_pc,         \* position of main()
    odoo_langs,    \* ODOO_LANGS
    bs_tier,       \* TARGET_TIER
    user_groups,   \* USER_GROUPS
    lang_codes,    \* the normalized language codes
    lang_idx,      \* index of the code the activation loop is at
    activated,     \* the codes activated by this run
    group_ids,     \* the ids resolve_groups returned
    res_users,     \* res.users: the row of the default login, if any
    bs_steps,      \* log: the steps main() has executed, in order
    bs_log,        \* log: the messages main() and its helpers printed
    bs_failed,     \* log: the steps that failed
    bs_rc          \* main's return value, -1 while running

erpVars == <<bs_pc, odoo_langs, bs_tier, user_groups, lang_codes, lang_idx,
             activated, group_ids, res_users, bs_steps, bs_log, bs_failed,
             bs_rc>>

vars == <<bootVars, ticketVars, paramVars, provVars, instVars, erpVars>>

nonBootVars == <<ticketVars, paramVars, provVars, instVars, erpVars>>
nonTicketVars == <<bootVars, paramVars, provVars, instVars, erpVars>>
nonParamVars == <<bootVars, ticketVars, provVars, instVars, erpVars>>
nonProvVars == <<bootVars, ticketVars, instVars, erpVars>>
nonInstVars == <<bootVars, ticketVars, paramVars, provVars, erpVars>>
nonErpVars == <<bootVars, ticketVars, paramVars, provVars, instVars>>

\* The components a specification does not run keep their initial state.
TicketIdle ==
    /\ slas = {}
    /\ ticket = [exists |-> FALSE]
    /\ statuses = {}
    /\ form = [open |-> FALSE]
    /\ last = [op |-> "none"]

ParamIdle ==
    /\ icp = <<>>
    /\ ep_log = <<>>

ErpIdle ==
    /\ bs_pc = "idle"
    /\ odoo_langs = <<>>
    /\ bs_tier = ""
    /\ user_groups = <<>>
    /\ lang_codes = <<>>
    /\ lang_idx = 0
    /\ activated = <<>>
    /\ group_ids = <<>>
    /\ res_users = [exists |-> FALSE, group_ids |-> <<>>]
    /\ bs_steps = <<>>
    /\ bs_log = {}
    /\ bs_failed = {}
    /\ bs_rc = -1

InstIdle ==
    /\ modules_txt = [exists |-> FALSE, lines |-> <<>>]
    /\ inst_db = <<>>
    /\ mod_state = <<>>
    /\ inst = [n |-> 0]

ProvIdle ==
    /\ env_name = <<>>
    /\ tier = <<>>
    /\ api_model = "none"
    /\ secrets = 0
    /\ secrets_container = 0
    /\ apikeys = {}
    /\ n8n_user = FALSE
    /\ next_key = 1
    /\ run = [n |-> 0]

-----------------------------------------------------------------------------
(***************************************************************************)
(* JSON values as json.loads yields them: tagged, so that isinstance and   *)
(* Python truthiness can be decided.                                       *)
(***************************************************************************)
JNone == [t |-> "none"]
JTrue == [t |-> "bool", b |-> TRUE]
JFalse == [t |-> "bool", b |-> FALSE]
JStr(s) == [t |-> "str", s |-> s]
JObj(f) == [t |-> "dict", d |-> f]
JEmpty == JObj(<<>>)

IsDict(v) == v.t = "dict"

\* dict.get(key): the value, None when the key is absent
Get(o, k) == IF k \in DOMAIN o.d THEN o.d[k] ELSE JNone

\* key in dict
HasKey(o, k) == k \in DOMAIN o.d

\* bool(v)
Truthy(v) ==
    CASE v.t = "bool" -> v.b
      [] v.t = "dict" -> DOMAIN v.d # {}
      [] v.t = "str" -> v.s # ""
      [] OTHER -> FALSE

\* v is False
IsFalse(v) == v.t = "bool" /\ ~v.b

\* a or b
Or(a, b) == IF Truthy(a) THEN a ELSE b


-----------------------------------------------------------------------------
(***************************************************************************)
(* Workflow-tool bootstrapper: bootstrap.py                                *)
(***************************************************************************)

\* The largest N8N_BOOTSTRAP_WAIT_SECONDS the model tries.
MaxWait == 11

\* The values of N8N_BOOTSTRAP_WAIT_SECONDS tried: below and above the floor.
TotalWaits == {0, MaxWait}

\* _candidate_base_urls() with N8N_URL and N8N_ALT_URLS unset: the three
\* fixed fallbacks, the default primary being the first of them.
NumCandidates == 3

MinTotalWait == 10      \* max(10, total_wait)
MinRemain == 5          \* max(5, int(deadline - time.time()))
MaxPerTry == 12         \* min(12, remain)
GetTimeout == 5         \* _http_json_get(settings_url, timeout=5.0)
RetrySleep == 2         \* time.sleep(2.0)
LoopSleep_None == 1 - 1 \* the loop without its sleep
LoopSleep == 1          \* time.sleep(1.0)
SettleTimeout == 75     \* _wait_for_ready(base_url, timeout_seconds=75.0)
RecheckTimeout == 10    \* _wait_for_ready(base_url, timeout_seconds=10.0)

Max(a, b) == IF a >= b THEN a ELSE b
Min(a, b) == IF a <= b THEN a ELSE b

\* The settings payloads the server may answer with (json.loads of the body).
SettingsShapes == <<
    \* 1: {"userManagement": {"isInstanceOwnerSetUp": true}}
    JObj([userManagement |-> JObj([isInstanceOwnerSetUp |-> JTrue])]),
    \* 2: {"isInstanceOwnerInitialized": true}
    JObj([isInstanceOwnerInitialized |-> JTrue]),
    \* 3: {"showSetupOnFirstLoad": false}
    JObj([showSetupOnFirstLoad |-> JFalse]),
    \* 4: {"userManagement": {"isInstanceOwnerInitialized": true}}
    JObj([userManagement |-> JObj([isInstanceOwnerInitialized |-> JTrue])]),
    \* 5: {"userManagement": {"showSetupOnFirstLoad": false}}
    JObj([userManagement |-> JObj([showSetupOnFirstLoad |-> JFalse])]),
    \* 6: a fresh instance
    JObj([userManagement |-> JObj([isInstanceOwnerSetUp |-> JFalse,
                                   showSetupOnFirstLoad |-> JTrue])]),
    \* 7: the wrapped shape of newer versions, owner set up
    JObj([data |-> JObj([userManagement |->
                            JObj([isInstanceOwnerSetUp |-> JTrue])])]),
    \* 8: the wrapped shape, fresh instance, with a REST endpoint
    JObj([data |-> JObj([userManagement |->
                            JObj([showSetupOnFirstLoad |-> JTrue]),
                         endpoint |-> JStr("/api/v1/")])]),
    \* 9: {}
    JEmpty
>>

ShapeIds == 1..Len(SettingsShapes)

\* if isinstance(settings.get("data"), dict): settings = settings.get("data")
Unwrap(s) == IF IsDict(Get(s, "data")) THEN Get(s, "data") ELSE s

\* um = settings.get("userManagement") or {}
UserManagement(s) == Or(Get(s, "userManagement"), JEmpty)

\* OwnerFlags without the showSetupOnFirstLoad test.
OwnerFlags_NoShowSetup(um) ==
    \/ Truthy(Get(um, "isInstanceOwnerSetUp"))
    \/ Truthy(Get(um, "isInstanceOwnerInitialized"))

\* bool(um.get("isInstanceOwnerSetUp")) or bool(um.get("isInstanceOwnerInitialized"))
\*   or ("showSetupOnFirstLoad" in um and um.get("showSetupOnFirstLoad") is False)
OwnerFlags(um) ==
    \/ Truthy(Get(um, "isInstanceOwnerSetUp"))
    \/ Truthy(Get(um, "isInstanceOwnerInitialized"))
    \/ (HasKey(um, "showSetupOnFirstLoad")
        /\ IsFalse(Get(um, "showSetupOnFirstLoad")))

\* The owner check that never finds the owner set up.
IsOwnerSetup_Never(s) == FALSE

\* is_owner_setup of main(), post_init of the two re-checks; the payload is
\* the one _wait_for_ready returned, before unwrapping.
IsOwnerSetup(s) == OwnerFlags(UserManagement(Unwrap(s)))

\* str.strip("/") on the endpoint names the payloads carry
StripSlashes(s) ==
    CASE s = "/api/v1/" -> "api/v1"
      [] s = "rest" -> "rest"
      [] OTHER -> s

\* rest_prefix without its leading "/":
\*   (settings.get("endpoint") or settings.get("restEndpoint") or "rest").strip("/")
RestPrefix(s) ==
    StripSlashes(Or(Or(Get(s, "endpoint"), Get(s, "restEndpoint")),
                    JStr("rest")).s)

\* A request path "/" + prefix + suffix ("" for no prefix).
Path(prefix, suffix) == [prefix |-> prefix, suffix |-> suffix]

\* The three primary setup endpoints, in the order main() POSTs to them.
PrimaryPaths(prefix) == <<
    Path(prefix, "/owner/setup"),
    Path(prefix, "/setup"),
    Path(prefix, "/user-management/setup")
>>

\* candidates of the fallback probe
ProbeCandidates(prefix) == <<
    Path(prefix, "/owner/setup"),
    Path(prefix, "/user-management/setup"),
    Path(prefix, "/setup"),
    Path(prefix, "/users"),
    Path(prefix, "/user-management/users"),
    Path("", "/owner/setup"),
    Path("", "/user-management/setup"),
    Path("", "/setup"),
    Path("", "/users"),
    Path("", "/user-management/users"),
    Path("api/v1", "/owner/setup"),
    Path("api/v1", "/setup"),
    Path("api/v1", "/user-management/setup")
>>

\* Deduplicate while preserving order
RECURSIVE Dedupe(_, _)
Dedupe(seq, acc) ==
    IF seq = <<>> THEN acc
    ELSE IF \E i \in 1..Len(acc) : acc[i] = Head(seq)
         THEN Dedupe(Tail(seq), acc)
         ELSE Dedupe(Tail(seq), Append(acc, Head(seq)))

ProbePaths(prefix) == Dedupe(ProbeCandidates(prefix), <<>>)

\* Statuses urlopen returns without raising (it raises HTTPError otherwise).
ReturnedStatuses == {200, 201, 204}

\* Codes of the HTTPError a POST may raise.
HttpErrorCodes == {400, 401, 403, 404, 409, 500}

\* Bodies / messages of an error answer.
Details == {"Owner already set up", "Instance INITIALIZED", "Bad request", ""}

\* "already" in detail.lower()
HasAlready(d) == d = "Owner already set up"

\* HasMarker looking for "initialized" alone.
HasMarker_InitializedOnly(d) == d = "Instance INITIALIZED"

\* HasMarker accepting every message.
HasMarker_AnyDetail(d) == TRUE

\* "already" in detail.lower() or "initialized" in detail.lower()
HasMarker(d) == HasAlready(d) \/ d = "Instance INITIALIZED"

\* return <code> of main()
Return(code) ==
    /\ pc' = "done"
    /\ exit_code' = code

\* The messages str(e) of the exceptions a GET raises when the name of the
\* host does not resolve (urllib wraps the socket.gaierror of getaddrinfo),
\* each as the fragments the markers of _is_dns_error are looked up in
GaiErrors ==
    { <<"<urlopen error ", "[Errno -2]", " ", "Name or service not known", ">">>,
      <<"<urlopen error ", "[Errno -3]", " ",
        "Temporary failure in name resolution", ">">>,
      <<"<urlopen error ", "[Errno -5]", " ",
        "No address associated with hostname", ">">> }

\* The messages of the other exceptions a GET raises, HTTPError apart
OtherErrors ==
    { <<"<urlopen error ", "[Errno 111]", " ", "Connection refused", ">">>,
      <<"timed out">> }

GetErrors == GaiErrors \cup OtherErrors

\* str.lower() on a fragment
LowerFragment(f) ==
    CASE f = "[Errno -2]" -> "[errno -2]"
      [] f = "[Errno -3]" -> "[errno -3]"
      [] f = "[Errno -5]" -> "[errno -5]"
      [] f = "[Errno 111]" -> "[errno 111]"
      [] f = "Name or service not known" -> "name or service not known"
      [] f = "Temporary failure in name resolution" ->
             "temporary failure in name resolution"
      [] f = "No address associated with hostname" ->
             "no address associated with hostname"
      [] f = "Connection refused" -> "connection refused"
      [] OTHER -> f

\* The markers _is_dns_error looks for
DnsMarkers ==
    { "temporary failure in name resolution", "name or service not known",
      "nodename nor servname provided", "getaddrinfo failed",
      "[errno -3]", "[errno -2]" }

\* _is_dns_error(message)
IsDnsError(message) ==
    \E i \in 1..Len(message) : LowerFragment(message[i]) \in DnsMarkers

\* No call of _wait_for_ready is running
NoFrame ==
    [caller |-> "none", url |-> 0, deadline |-> 0, abort_dns |-> FALSE,
     last_err |-> <<>>]

\* A call of _wait_for_ready(base_url, timeout_seconds, abort_on_dns_failure).
CallWaitForReady(caller, url, timeout, abort, t) ==
    /\ pc' = "wfr"
    /\ wfr' = [caller |-> caller, url |-> url, deadline |-> t + timeout,
               abort_dns |-> abort, last_err |-> <<>>]

\* _wait_for_ready is left: its last_err is gone
LeaveWaitForReady == wfr' = [wfr EXCEPT !.last_err = <<>>]

\* No POST was answered yet
NoAnswer == [raised |-> FALSE, status |-> 0, detail |-> ""]

\* What a POST gave; the message is read for the statuses 400 and 409
Answer(raised, status, detail) ==
    [raised |-> raised, status |-> status,
     detail |-> IF status \in {400, 409} THEN detail ELSE ""]

BootIdle ==
    /\ pc = "idle"
    /\ now = 0
    /\ total_wait = 0
    /\ deadline = 0
    /\ cand = 0
    /\ base_url = 0
    /\ settings = JEmpty
    /\ wfr = NoFrame
    /\ err = [code |-> 0, detail |-> ""]
    /\ post_idx = 0
    /\ path_idx = 0
    /\ posts = <<>>
    /\ conflict = FALSE
    /\ seen_shape = 0
    /\ answer = NoAnswer
    /\ rechecked = 0
    /\ exit_code = -1

InitBoot ==
    /\ TicketIdle
    /\ ParamIdle
    /\ ProvIdle
    /\ InstIdle
    /\ ErpIdle
    /\ pc = "start"
    /\ now = 0
    /\ total_wait \in TotalWaits
    /\ deadline = 0
    /\ cand = 0
    /\ base_url = 0
    /\ settings = JEmpty
    /\ wfr = NoFrame
    /\ err = [code |-> 0, detail |-> ""]
    /\ post_idx = 0
    /\ path_idx = 0
    /\ posts = <<>>
    /\ conflict = FALSE
    /\ seen_shape = 0
    /\ answer = NoAnswer
    /\ rechecked = 0
    /\ exit_code = -1

\* deadline = time.time() + max(10, total_wait)
MainStart ==
    /\ pc = "start"
    /\ deadline' = now + Max(MinTotalWait, total_wait)
    /\ pc' = "while"
    /\ UNCHANGED <<now, total_wait, cand, base_url, settings, wfr, err,
                   post_idx, path_idx, posts, conflict, seen_shape, exit_code>>
    /\ UNCHANGED <<answer, rechecked>>
    /\ UNCHANGED nonBootVars

\* while time.time() < deadline and not base_url: ... ; if not base_url: return 1
MainWhile ==
    /\ pc = "while"
    /\ IF now < deadline /\ base_url = 0
       THEN /\ cand' = 1
            /\ pc' = "for"
            /\ UNCHANGED exit_code
       ELSE /\ Return(1)
            /\ UNCHANGED cand
    /\ UNCHANGED <<now, total_wait, deadline, base_url, settings, wfr, err,
                   post_idx, path_idx, posts, conflict, seen_shape>>
    /\ UNCHANGED <<answer, rechecked>>
    /\ UNCHANGED nonBootVars

\* for candidate in candidates: one iteration up to the _wait_for_ready call;
\* the loop's end (or its break on the deadline) sleeps and re-tests the while.
MainFor ==
    /\ pc = "for"
    /\ IF cand > NumCandidates \/ now >= deadline
       THEN /\ now' = now + LoopSleep
            /\ pc' = "while"
            /\ UNCHANGED wfr
       ELSE /\ CallWaitForReady("main", cand,
                   Min(MaxPerTry, Max(MinRemain, deadline - now)), TRUE, now)
            /\ UNCHANGED now
    /\ UNCHANGED <<total_wait, deadline, cand, base_url, settings, err,
                   post_idx, path_idx, posts, conflict, seen_shape, exit_code>>
    /\ UNCHANGED <<answer, rechecked>>
    /\ UNCHANGED nonBootVars

\* _wait_for_ready returned data to its caller.
WfrReturn(i) ==
    LET data == SettingsShapes[i] IN
    CASE wfr.caller = "main" ->
            \* settings = ...; base_url = candidate; break; then line 152
            /\ settings' = data
            /\ base_url' = cand
            /\ now' = 0
            /\ CallWaitForReady("settle", cand, SettleTimeout, FALSE, 0)
            /\ UNCHANGED <<seen_shape, rechecked, exit_code>>
      [] wfr.caller = "settle" ->
            /\ settings' = data
            /\ pc' = "check"
            /\ seen_shape' = i
            /\ now' = 0
            /\ LeaveWaitForReady
            /\ UNCHANGED <<base_url, rechecked, exit_code>>
      [] OTHER ->
            \* the re-checks of lines 237 and 314
            /\ IF IsOwnerSetup(data) THEN Return(0)
               ELSE IF wfr.caller = "recheck" /\ err.code \in {400, 409}
                       /\ HasMarker(err.detail)
                    THEN Return(0)
                    ELSE Return(1)
            /\ now' = 0
            /\ rechecked' = i
            /\ LeaveWaitForReady
            /\ UNCHANGED <<base_url, settings, seen_shape>>

\* _wait_for_ready raised RuntimeError to its caller.
WfrRaise ==
    /\ LeaveWaitForReady
    /\ CASE wfr.caller = "main" ->
               \* last_error = e; continue
               /\ cand' = cand + 1
               /\ pc' = "for"
               /\ UNCHANGED <<now, exit_code>>
         [] wfr.caller = "settle" ->
               /\ Return(1)
               /\ now' = 0
               /\ UNCHANGED cand
         [] OTHER ->
               \* except Exception: pass
               /\ IF wfr.caller = "recheck" /\ err.code \in {400, 409}
                     /\ HasMarker(err.detail)
                  THEN Return(0)
                  ELSE Return(1)
               /\ now' = 0
               /\ UNCHANGED cand

\* One GET of the settings endpoint answered 200/204 with a JSON object.
WfrOk ==
    /\ pc = "wfr"
    /\ now < wfr.deadline
    /\ \E i \in ShapeIds : WfrReturn(i)
    /\ UNCHANGED <<total_wait, deadline, cand, err, post_idx, path_idx, posts,
                   conflict>>
    /\ UNCHANGED answer
    /\ UNCHANGED nonBootVars

\* What one GET that does not return the payload leaves in last_err: the
\* message of the exception, "HTTP <code>" for an HTTPError, last_err as it
\* was for an answer that is no 200/204 JSON object.  A call that does not
\* abort on DNS errors only prints last_err when it gives up: of its
\* failures the model keeps one.
GetFailures ==
    IF wfr.abort_dns
    THEN GetErrors \cup {<<"HTTP 503">>, wfr.last_err}
    ELSE {<<"timed out">>}

\* One GET failed and the loop goes on: an HTTP error, an unusable answer,
\* or an exception that is no DNS error the call aborts on; then
\* time.sleep(2.0).  A failing GET takes no time or the 5 s of its timeout.
WfrRetry ==
    /\ pc = "wfr"
    /\ now < wfr.deadline
    /\ \E e \in GetFailures, d \in {0, GetTimeout} :
         /\ e \in GetErrors => ~(wfr.abort_dns /\ IsDnsError(e))
         /\ wfr' = [wfr EXCEPT !.last_err = e]
         /\ now' = now + d + RetrySleep
    /\ UNCHANGED <<pc, total_wait, deadline, cand, base_url, settings, err,
                   post_idx, path_idx, posts, conflict, seen_shape, exit_code>>
    /\ UNCHANGED <<answer, rechecked>>
    /\ UNCHANGED nonBootVars

\* One GET raised an exception that _is_dns_error recognises, and
\* abort_on_dns_failure is set: raise RuntimeError("DNS error for ...")
WfrDns ==
    /\ pc = "wfr"
    /\ now < wfr.deadline
    /\ wfr.abort_dns
    /\ \E e \in GetErrors : IsDnsError(e)
    /\ WfrRaise
    /\ UNCHANGED <<total_wait, deadline, base_url, settings, err,
                   post_idx, path_idx, posts, conflict, seen_shape>>
    /\ UNCHANGED <<answer, rechecked>>
    /\ UNCHANGED nonBootVars

\* while time.time() < deadline fails: raise RuntimeError("n8n not ready ...")
WfrExpire ==
    /\ pc = "wfr"
    /\ now >= wfr.deadline
    /\ WfrRaise
    /\ UNCHANGED <<total_wait, deadline, base_url, settings, err,
                   post_idx, path_idx, posts, conflict, seen_shape>>
    /\ UNCHANGED <<answer, rechecked>>
    /\ UNCHANGED nonBootVars

\* Lines 157-178: unwrap, owner check, REST prefix.
MainCheck ==
    /\ pc = "check"
    /\ settings' = Unwrap(settings)
    /\ IF IsOwnerSetup(settings)
       THEN /\ Return(0)
            /\ UNCHANGED post_idx
       ELSE /\ pc' = "post"
            /\ post_idx' = 1
            /\ UNCHANGED exit_code
    /\ UNCHANGED <<now, total_wait, deadline, cand, base_url, wfr, err,
                   path_idx, posts, conflict, seen_shape>>
    /\ UNCHANGED <<answer, rechecked>>
    /\ UNCHANGED nonBootVars

\* The POST request sent to the first candidate whatever base URL was chosen.
NextPost_FirstCandidate ==
    IF pc = "post"
    THEN [base |-> 1, path |-> PrimaryPaths(RestPrefix(settings))[post_idx]]
    ELSE [base |-> 1, path |-> ProbePaths(RestPrefix(settings))[path_idx]]

\* The POST request main() is about to issue.
NextPost ==
    IF pc = "post"
    THEN [base |-> base_url, path |-> PrimaryPaths(RestPrefix(settings))[post_idx]]
    ELSE [base |-> base_url, path |-> ProbePaths(RestPrefix(settings))[path_idx]]

\* One of the three primary POSTs returned (status, body).
PostReturns ==
    /\ pc = "post"
    /\ posts' = Append(posts, NextPost)
    /\ \E status \in ReturnedStatuses, msg \in Details :
         /\ answer' = Answer(FALSE, status, msg)
         /\ IF status \in {200, 201} THEN /\ Return(0)
                                          /\ UNCHANGED post_idx
            ELSE IF status \in {400, 409} /\ HasMarker(msg)
                 THEN /\ Return(0)
                      /\ UNCHANGED post_idx
                 ELSE IF post_idx < 3
                      THEN /\ post_idx' = post_idx + 1
                           /\ UNCHANGED <<pc, exit_code>>
                      ELSE /\ Return(1)
                           /\ UNCHANGED post_idx
    /\ UNCHANGED rechecked
    /\ UNCHANGED <<now, total_wait, deadline, cand, base_url, settings, wfr,
                   err, path_idx, conflict, seen_shape>>
    /\ UNCHANGED nonBootVars

\* One of the three primary POSTs raised urllib.error.HTTPError.
PostHttpError ==
    /\ pc = "post"
    /\ posts' = Append(posts, NextPost)
    /\ \E code \in HttpErrorCodes, detail \in Details :
         /\ err' = [code |-> code, detail |-> detail]
         /\ answer' = Answer(TRUE, code, detail)
         /\ conflict' = (conflict \/ (code = 409 /\ HasAlready(detail)))
         /\ IF code \in {400, 409}
            THEN /\ CallWaitForReady("recheck", base_url, RecheckTimeout, FALSE, 0)
                 /\ now' = 0
                 /\ UNCHANGED <<path_idx, exit_code>>
            ELSE IF code \in {404, 401, 403}
                 THEN /\ pc' = "probe"
                      /\ path_idx' = 1
                      /\ UNCHANGED <<now, wfr, exit_code>>
                 ELSE /\ Return(1)
                      /\ UNCHANGED <<now, wfr, path_idx>>
    /\ UNCHANGED <<total_wait, deadline, cand, base_url, settings, post_idx,
                   seen_shape>>
    /\ UNCHANGED rechecked
    /\ UNCHANGED nonBootVars

\* One of the three primary POSTs raised another exception.
PostException ==
    /\ pc = "post"
    /\ posts' = Append(posts, NextPost)
    /\ Return(1)
    /\ UNCHANGED <<now, total_wait, deadline, cand, base_url, settings, wfr,
                   err, post_idx, path_idx, conflict, seen_shape>>
    /\ answer' = Answer(TRUE, 0, "")
    /\ UNCHANGED rechecked
    /\ UNCHANGED nonBootVars

\* The probe loop giving up at the first path that does not succeed.
ProbeNext_GiveUp ==
    /\ Return(1)
    /\ UNCHANGED <<now, wfr, path_idx>>

\* for path in paths: the next path, or the final check after the last one
ProbeNext ==
    IF path_idx < Len(ProbePaths(RestPrefix(settings)))
    THEN /\ path_idx' = path_idx + 1
         /\ UNCHANGED <<pc, now, wfr, exit_code>>
    ELSE /\ CallWaitForReady("final", base_url, RecheckTimeout, FALSE, 0)
         /\ now' = 0
         /\ UNCHANGED <<path_idx, exit_code>>

\* A fallback probe POST returned (status, body).
ProbeReturns ==
    /\ pc = "probe"
    /\ posts' = Append(posts, NextPost)
    /\ \E status \in ReturnedStatuses :
         /\ answer' = Answer(FALSE, status, "")
         /\ IF status \in {200, 201}
            THEN /\ Return(0)
                 /\ UNCHANGED <<now, wfr, path_idx>>
            ELSE ProbeNext
    /\ UNCHANGED rechecked
    /\ UNCHANGED <<total_wait, deadline, cand, base_url, settings, err,
                   post_idx, conflict, seen_shape>>
    /\ UNCHANGED nonBootVars

\* A fallback probe POST raised urllib.error.HTTPError.
ProbeHttpError ==
    /\ pc = "probe"
    /\ posts' = Append(posts, NextPost)
    /\ \E code \in HttpErrorCodes, detail \in Details :
         /\ conflict' = (conflict \/ (code = 409 /\ HasAlready(detail)))
         /\ answer' = Answer(TRUE, code, detail)
         /\ IF code \in {400, 409} /\ HasMarker(detail)
            THEN /\ Return(0)
                 /\ UNCHANGED <<now, wfr, path_idx>>
            ELSE IF code \in {401, 403}
                 THEN ProbeNext
                 ELSE IF code \notin {404}
                      THEN /\ Return(1)
                           /\ UNCHANGED <<now, wfr, path_idx>>
                      ELSE ProbeNext
    /\ UNCHANGED <<total_wait, deadline, cand, base_url, settings, err,
                   post_idx, seen_shape>>
    /\ UNCHANGED rechecked
    /\ UNCHANGED nonBootVars

\* A fallback probe POST raised another exception.
ProbeException ==
    /\ pc = "probe"
    /\ posts' = Append(posts, NextPost)
    /\ Return(1)
    /\ UNCHANGED <<now, total_wait, deadline, cand, base_url, settings, wfr,
                   err, post_idx, path_idx, conflict, seen_shape>>
    /\ answer' = Answer(TRUE, 0, "")
    /\ UNCHANGED rechecked
    /\ UNCHANGED nonBootVars

NextBoot ==
    \/ MainStart
    \/ MainWhile
    \/ MainFor
    \/ WfrOk
    \/ WfrRetry
    \/ WfrDns
    \/ WfrExpire
    \/ MainCheck
    \/ PostReturns
    \/ PostHttpError
    \/ PostException
    \/ ProbeReturns
    \/ ProbeHttpError
    \/ ProbeException

SpecBoot == InitBoot /\ [][NextBoot]_vars

\* main() up to the end of the wait of line 152: the candidate loop and the
\* calls of _wait_for_ready.  main() is one sequential process, every GET
\* returns or raises within its timeout and every sleep ends, so a step that
\* can be taken is taken.
NextWait ==
    \/ MainStart
    \/ MainWhile
    \/ MainFor
    \/ WfrOk
    \/ WfrRetry
    \/ WfrDns
    \/ WfrExpire

WaitBoot == InitBoot /\ [][NextWait]_vars /\ WF_vars(NextWait)


-----------------------------------------------------------------------------
(***************************************************************************)
(* Helpdesk ticket extension: helpdesk_ticket.py                           *)
(*                                                                         *)
(* The model follows one ticket record from its creation, and the form     *)
(* opened on it.  Records of the other models (categories, teams, users,   *)
(* tags, stages) are fixed rows; SLA policies 1..NumInitialSlas exist from *)
(* the start and the others are created by an inline CREATE command.  0    *)
(* stands for an empty recordset / False.                                  *)
(*                                                                         *)
(* The base system is modelled as far as the extension relies on it:       *)
(* super().create() and super().write() assign the vals, run the           *)
(* constraints and the core SLA apply (with keep_reached=True on write),   *)
(* which creates a status for every policy _sla_find returns; the SLA      *)
(* engine may flag an open status as reached at any time.  While a form is *)
(* open, the ticket is not created or written.                             *)
(***************************************************************************)

\* helpdesk.category rows: A = 1, B = 2 (child of A), C = 3 (child of B),
\* D = 4 (a root unrelated to them), E = 5 (child of C).
Categories == {1, 2, 3, 4, 5}
CatParent == <<0, 1, 2, 0, 3>>
CatTeam == <<1, 2, 0, 0, 0>>
CatUser == <<1, 2, 1, 2, 2>>

\* helpdesk.team rows
Teams == {1, 2}
TeamAssignMethod == <<"category", "randomly">>
TeamMembers == <<{1}, {1, 2}>>
TeamUseSla == <<TRUE, FALSE>>
TeamCompany == <<1, 1>>

\* res.users rows, helpdesk.tag rows, ticket priorities, stage sequences
Users == {1, 2}
Tags == {1}
Priorities == {0, 1}
StageSeqs == {1, 2}

\* self.env.company.id and the partner of the modelled ticket
EnvCompany == 1
TicketPartner == 1

\* helpdesk.sla rows, by id: 1 is scoped to category B, 2 to category D,
\* 3 is restricted by team, priority, stage and tag, 4 and 5 are global
\* (5 is reserved to another partner).
NumInitialSlas == 3
MaxSlas == 5
SlaIds == 1..MaxSlas
SlaTeam == [s \in SlaIds |-> IF s = 3 THEN 1 ELSE 0]
SlaPriorityAll == [s \in SlaIds |-> s # 3]
SlaPriority == [s \in SlaIds |-> IF s = 3 THEN 1 ELSE 0]
SlaStageSeq == [s \in SlaIds |-> IF s = 3 THEN 1 ELSE 2]
SlaCategories ==
    [s \in SlaIds |-> IF s = 1 THEN {2} ELSE IF s = 2 THEN {4} ELSE {}]
SlaTags == [s \in SlaIds |-> IF s = 3 THEN {1} ELSE {}]
SlaPartners == [s \in SlaIds |-> IF s = 5 THEN {2} ELSE {}]

NoTicket == [exists |-> FALSE]
NoForm == [open |-> FALSE]
NoCall == [op |-> "none"]

\* dict.get(key) on a vals dictionary, `dflt` standing for None
VGet(vals, k, dflt) == IF k \in DOMAIN vals THEN vals[k] ELSE dflt

\* vals[key] = value
VPut(vals, k, v) == [x \in DOMAIN vals \cup {k} |-> IF x = k THEN v ELSE vals[x]]

\* parent = category.parent_id
\* while parent and not parent.team_id: parent = parent.parent_id
RECURSIVE ClosestTeamParent(_)
ClosestTeamParent(parent) ==
    IF parent # 0 /\ CatTeam[parent] = 0
    THEN ClosestTeamParent(CatParent[parent])
    ELSE parent

\* Team.search([('company_id', '=', company_id)], limit=1): the first team
\* of the company, 0 when it has none
DefaultTeam(company) ==
    LET found == {t \in Teams : TeamCompany[t] = company}
    IN IF found = {} THEN 0 ELSE CHOOSE t \in found : \A u \in found : t <= u

\* search([('id', 'parent_of', cat)]).ids: the category and its ancestors
RECURSIVE ParentOf(_)
ParentOf(cat) == IF cat = 0 THEN {} ELSE {cat} \cup ParentOf(CatParent[cat])

\* The category's user whether or not the team has it as a member
CategoryUserIfMember_NoMemberCheck(cat, team) == CatUser[cat]

\* category.user_id if (category.user_id and category.user_id in team.member_ids)
\* else False
CategoryUserIfMember(cat, team) ==
    IF CatUser[cat] # 0 /\ CatUser[cat] \in TeamMembers[team]
    THEN CatUser[cat] ELSE 0

\* next(iter(ids)) and recordset[:1].id: the ids are held in a set, which
\* CPython iterates in ascending order for these small integers.
FirstId(ids) == CHOOSE i \in ids : \A j \in ids : i <= j

\* A many2many command (op, id, ids) of a vals dictionary: cmd[0], cmd[1],
\* cmd[2].  0 CREATE, 3 UNLINK, 4 LINK, 5 CLEAR, 6 SET.
Cmd(op, id, ids) == [op |-> op, id |-> id, ids |-> ids]

Range(seq) == {seq[i] : i \in 1..Len(seq)}

\* create(): "Normalize many2many commands to final ids"
RECURSIVE FinalIds(_, _)
FinalIds(cmds, ids) ==
    IF cmds = <<>> THEN ids
    ELSE LET cmd == Head(cmds)
         IN FinalIds(Tail(cmds),
                CASE cmd.op = 6 -> Range(cmd.ids)
                  [] cmd.op = 4 -> ids \cup {cmd.id}
                  [] cmd.op = 3 -> ids \ {cmd.id}
                  [] cmd.op = 5 -> {}
                  [] OTHER -> ids)

\* create(): "Ensure at most one SLA is set"
CreateLimitSla(vals) ==
    IF VGet(vals, "sla_ids", <<>>) # <<>>
    THEN LET ids == FinalIds(vals["sla_ids"], {})
         IN IF ids # {}
            THEN VPut(vals, "sla_ids", <<Cmd(6, 0, <<FirstId(ids)>>)>>)
            ELSE vals
    ELSE vals

\* create(): "1) Sync team from category (or closest parent) or fall back to
\* any team in company"
CreateSyncTeam(vals) ==
    LET category == VGet(vals, "category_id", 0)
    IN IF category = 0 THEN vals
       ELSE IF CatTeam[category] # 0
            THEN VPut(vals, "team_id", CatTeam[category])
            ELSE IF VGet(vals, "team_id", 0) # 0 THEN vals
                 ELSE LET parent == ClosestTeamParent(CatParent[category])
                          default_team ==
                              DefaultTeam(VGet(vals, "company_id", EnvCompany))
                      IN IF parent # 0
                         THEN VPut(vals, "team_id", CatTeam[parent])
                         ELSE IF default_team # 0
                              THEN VPut(vals, "team_id", default_team)
                              ELSE vals

\* create(): "2) Conditionally sync assignee based on team setting"
CreateSyncUser(vals) ==
    LET category == VGet(vals, "category_id", 0)
        team == IF category # 0 /\ CatTeam[category] # 0
                THEN CatTeam[category]
                ELSE VGet(vals, "team_id", 0)
    IN IF category # 0 /\ team # 0 /\ TeamAssignMethod[team] = "category"
          /\ VGet(vals, "user_id", 0) = 0
       THEN VPut(vals, "user_id", CategoryUserIfMember(category, team))
       ELSE vals

\* The vals create() passes to super().create()
CreateVals(vals) == CreateLimitSla(CreateSyncUser(CreateSyncTeam(vals)))

\* write() with the propagation reversed: a team written without a category
\* pulls in the first category that carries the team
WriteSyncTeam_TeamSetsCategory(vals) ==
    LET category == VGet(vals, "category_id", 0)
        carried == {c \in Categories : CatTeam[c] = VGet(vals, "team_id", 0)}
    IN IF "category_id" \notin DOMAIN vals
       THEN IF carried # {}
            THEN VPut(vals, "category_id", CHOOSE c \in carried : TRUE)
            ELSE vals
       ELSE IF category = 0 THEN vals
       ELSE IF CatTeam[category] # 0
            THEN VPut(vals, "team_id", CatTeam[category])
            ELSE IF "team_id" \notin DOMAIN vals
                 THEN LET parent == ClosestTeamParent(CatParent[category])
                      IN IF parent # 0
                         THEN VPut(vals, "team_id", CatTeam[parent])
                         ELSE vals
                 ELSE vals

\* write(): "1) Sync team from category (or closest parent)"
WriteSyncTeam(vals) ==
    LET category == VGet(vals, "category_id", 0)
    IN IF category = 0 THEN vals
       ELSE IF CatTeam[category] # 0
            THEN VPut(vals, "team_id", CatTeam[category])
            ELSE IF "team_id" \notin DOMAIN vals
                 THEN LET parent == ClosestTeamParent(CatParent[category])
                      IN IF parent # 0
                         THEN VPut(vals, "team_id", CatTeam[parent])
                         ELSE vals
                 ELSE vals

\* write(): "2) Conditionally sync assignee based on target team setting";
\* self is the one modelled ticket, so len(self) == 1
WriteSyncUser(vals, self) ==
    LET category == VGet(vals, "category_id", 0)
        target_team == IF VGet(vals, "team_id", 0) # 0
                       THEN vals["team_id"]
                       ELSE IF category # 0 THEN CatTeam[category] ELSE 0
    IN IF category # 0 /\ target_team # 0
          /\ TeamAssignMethod[target_team] = "category"
          /\ "user_id" \notin DOMAIN vals /\ self.user_id = 0
       THEN VPut(vals, "user_id", CategoryUserIfMember(category, target_team))
       ELSE vals

\* The vals write() passes to super().write()
WriteVals(vals, self) == WriteSyncUser(WriteSyncTeam(vals), self)

\* The ORM applying many2many commands to a relation: the ids linked
\* afterwards and the helpdesk.sla rows existing afterwards.
RECURSIVE ApplyCommands(_, _, _)
ApplyCommands(cmds, linked, existing) ==
    IF cmds = <<>> THEN [linked |-> linked, existing |-> existing]
    ELSE LET cmd == Head(cmds)
             fresh == FirstId(SlaIds \ existing)
         IN CASE cmd.op = 0 ->
                    ApplyCommands(Tail(cmds), linked \cup {fresh},
                                  existing \cup {fresh})
              [] cmd.op = 3 ->
                    ApplyCommands(Tail(cmds), linked \ {cmd.id}, existing)
              [] cmd.op = 4 ->
                    ApplyCommands(Tail(cmds), linked \cup {cmd.id}, existing)
              [] cmd.op = 5 -> ApplyCommands(Tail(cmds), {}, existing)
              [] cmd.op = 6 ->
                    ApplyCommands(Tail(cmds), Range(cmd.ids), existing)
              [] OTHER -> ApplyCommands(Tail(cmds), linked, existing)

\* The ORM assigning vals to a record (the fields not in vals keep `rec`'s).
AssignVals(rec, vals, existing) ==
    [exists |-> TRUE,
     category_id |-> VGet(vals, "category_id", rec.category_id),
     team_id |-> VGet(vals, "team_id", rec.team_id),
     user_id |-> VGet(vals, "user_id", rec.user_id),
     priority |-> VGet(vals, "priority", rec.priority),
     stage_id |-> VGet(vals, "stage_id", rec.stage_id),
     tag_ids |-> VGet(vals, "tag_ids", rec.tag_ids),
     sla_ids |-> ApplyCommands(VGet(vals, "sla_ids", <<>>), rec.sla_ids,
                               existing).linked,
     sla_opt_out |-> VGet(vals, "sla_opt_out", rec.sla_opt_out),
     sla_recompute_bump |-> VGet(vals, "sla_recompute_bump",
                                 rec.sla_recompute_bump)]

\* The field defaults of a new record: sla_recompute_bump default=0,
\* sla_opt_out default=False, nothing linked.
DefaultRecord ==
    [exists |-> TRUE, category_id |-> 0, team_id |-> 0, user_id |-> 0,
     priority |-> 0, stage_id |-> 1, tag_ids |-> {}, sla_ids |-> {},
     sla_opt_out |-> FALSE, sla_recompute_bump |-> 0]

\* category_id is required=True
CategoryRequired(rec) == rec.category_id # 0

\* _check_assignee_is_team_member never raising.
AssigneeIsTeamMember_Unchecked(rec) == TRUE

\* _check_assignee_is_team_member: no ValidationError is raised
AssigneeIsTeamMember(rec) ==
    ~(rec.team_id # 0 /\ rec.user_id # 0
      /\ rec.user_id \notin TeamMembers[rec.team_id])

\* The constraint runs when the vals written hold one of its fields.
ConstraintsHold(rec, vals) ==
    /\ CategoryRequired(rec)
    /\ ({"team_id", "user_id"} \cap DOMAIN vals # {}
            => AssigneeIsTeamMember(rec))

\* _sla_find: '|', ('team_id', '=', False), ('team_id', '=', ticket.team_id.id)
SlaTeamMatches(rec, sla) == SlaTeam[sla] = 0 \/ SlaTeam[sla] = rec.team_id

\* '|', ('priority_all', '=', True), ('priority', '=', ticket.priority)
SlaPriorityMatches(rec, sla) ==
    SlaPriorityAll[sla] \/ SlaPriority[sla] = rec.priority

\* The stage clause dropped from the search domain
SlaStageMatches_AnyStage(rec, sla) == TRUE

\* ('stage_id.sequence', '>=', ticket.stage_id.sequence)
SlaStageMatches(rec, sla) == SlaStageSeq[sla] >= rec.stage_id

\* The category clause matching the ticket's own category only
SlaCategoryMatches_OwnCategoryOnly(rec, sla) ==
    SlaCategories[sla] = {} \/ rec.category_id \in SlaCategories[sla]

\* '|', ('category_ids', '=', False), ('category_ids', 'in', ancestor_ids)
\* for a ticket with a category, ('category_ids', '=', False) without
SlaCategoryMatches(rec, sla) ==
    IF rec.category_id # 0
    THEN SlaCategories[sla] = {}
            \/ SlaCategories[sla] \cap ParentOf(rec.category_id) # {}
    ELSE SlaCategories[sla] = {}

\* not s.tag_ids or (tickets.tag_ids & s.tag_ids)
SlaTagsMatch(tag_ids, sla) ==
    SlaTags[sla] = {} \/ tag_ids \cap SlaTags[sla] # {}

\* Domain.OR([ticket._sla_find_extra_domain(), self._sla_find_false_domain()]):
\* the inherited partner-based domain
SlaExtraDomain(sla) ==
    SlaPartners[sla] = {} \/ TicketPartner \in SlaPartners[sla]

\* base_domain of _sla_find
SlaBaseDomain(rec, sla) ==
    IF rec.sla_ids # {}
    THEN sla \in rec.sla_ids
    ELSE /\ SlaTeamMatches(rec, sla)
         /\ SlaPriorityMatches(rec, sla)
         /\ SlaStageMatches(rec, sla)
         /\ SlaCategoryMatches(rec, sla)

\* _sla_find() for the one ticket of self: the policies of result[ticket],
\* {} when the ticket is skipped; `existing` are the helpdesk.sla rows.
SlaFindIn(existing, rec) ==
    IF rec.sla_opt_out THEN {}
    ELSE IF rec.team_id = 0 \/ ~TeamUseSla[rec.team_id] THEN {}
         ELSE {sla \in existing : /\ SlaBaseDomain(rec, sla)
                                  /\ SlaExtraDomain(sla)
                                  /\ SlaTagsMatch(rec.tag_ids, sla)}

SlaFind(rec) == SlaFindIn(slas, rec)

\* The inherited SLA reset triggers, among the modelled fields
BaseSlaResetTrigger == {"team_id", "priority", "tag_ids"}

\* _sla_reset_trigger without the opt-out flag.
SlaResetTrigger_NoOptOut ==
    BaseSlaResetTrigger \cup {"category_id", "sla_recompute_bump"}

\* _sla_reset_trigger
SlaResetTrigger ==
    BaseSlaResetTrigger \cup {"category_id", "sla_recompute_bump", "sla_opt_out"}

\* The core SLA apply that super().create() and super().write() run: the
\* statuses kept (the reached ones under keep_reached=True) and a new status
\* for every policy _sla_find returns that has none among those kept.
CoreSlaApply(existing, rec, sts, keep_reached) ==
    LET kept == IF keep_reached THEN {st \in sts : st.reached} ELSE {}
        found == SlaFindIn(existing, rec)
    IN kept \cup {[sla |-> sla, reached |-> FALSE] :
                    sla \in {x \in found : \A st \in kept : st.sla # x}}

\* write(): "If multiple SLAs slipped in via other flows, compress to one
\* (keep first)"
WriteCompressSla(rec) ==
    IF rec.sla_ids # {} /\ Cardinality(rec.sla_ids) > 1
    THEN [rec EXCEPT !.sla_ids = {FirstId(rec.sla_ids)}]
    ELSE rec

\* The cleanup as C5 states it: reached statuses survive.
CleanupObsoleteSlaStatuses_KeepReached(existing, vals, rec, sts) ==
    IF DOMAIN vals \cap SlaResetTrigger = {} THEN sts
    ELSE LET allowed == SlaFindIn(existing, rec)
         IN {st \in sts : st.reached \/ st.sla \in allowed}

\* The cleanup without the test of the trigger fields: every write prunes.
CleanupObsoleteSlaStatuses_EveryWrite(existing, vals, rec, sts) ==
    LET allowed == SlaFindIn(existing, rec)
    IN IF allowed = {} THEN {}
       ELSE {st \in sts : st.sla \in allowed}

\* _cleanup_obsolete_sla_statuses_after_change(vals): the statuses left
CleanupObsoleteSlaStatuses(existing, vals, rec, sts) ==
    IF DOMAIN vals \cap SlaResetTrigger = {} THEN sts
    ELSE LET allowed == SlaFindIn(existing, rec)
         IN IF allowed = {} THEN {}
            ELSE {st \in sts : st.sla \in allowed}

\* The helpdesk.sla ids a command list names
CmdIds(cmds) ==
    UNION {IF cmds[i].op = 6 THEN Range(cmds[i].ids)
           ELSE IF cmds[i].op \in {3, 4} THEN {cmds[i].id} ELSE {}
           : i \in 1..Len(cmds)}

\* The number of Command.create items of a command list
NumCreates(cmds) == Cardinality({i \in 1..Len(cmds) : cmds[i].op = 0})

\* The callers' command lists for sla_ids
SlaCmdLists ==
    {<<Cmd(6, 0, <<a>>)>> : a \in SlaIds}
    \cup {<<Cmd(6, 0, <<a, b>>)>> :
            a \in 1..NumInitialSlas, b \in 1..NumInitialSlas}
    \cup {<<Cmd(4, a, <<>>)>> : a \in SlaIds}
    \cup {<<Cmd(3, a, <<>>)>> : a \in 1..NumInitialSlas}
    \cup {<<Cmd(5, 0, <<>>)>>,
          <<Cmd(0, 0, <<>>)>>,
          <<Cmd(0, 0, <<>>), Cmd(0, 0, <<>>)>>}

\* A vals dictionary: each argument is the set of the values given for its
\* key, {} for a key the caller leaves out.
Opt(values) == {{}} \cup {{v} : v \in values}
Vals(category, team, user, cmds, opt_out) ==
    LET given == [category_id |-> category, team_id |-> team,
                  user_id |-> user, sla_ids |-> cmds, sla_opt_out |-> opt_out]
    IN [k \in {x \in DOMAIN given : given[x] # {}} |->
            CHOOSE v \in given[k] : TRUE]

\* create(vals_list) with one vals, for the ticket the model follows: the
\* whole override, super().create() with its constraints and its SLA apply
\* included.
CreateStep(vals) ==
    LET out == CreateVals(vals)
        cmds == VGet(out, "sla_ids", <<>>)
        existing == ApplyCommands(cmds, {}, slas).existing
        rec == AssignVals(DefaultRecord, out, slas)
        ok == CategoryRequired(rec) /\ AssigneeIsTeamMember(rec)
    IN /\ ~form.open
       /\ ~ticket.exists
       /\ CmdIds(VGet(vals, "sla_ids", <<>>)) \subseteq slas
       /\ NumCreates(cmds) <= Cardinality(SlaIds \ slas)
       /\ last' = [op |-> "create", vals |-> vals, out |-> out, ok |-> ok]
       /\ form' = NoForm
       /\ IF ok
          THEN /\ ticket' = rec
               /\ slas' = existing
               /\ statuses' = CoreSlaApply(existing, rec, {}, FALSE)
          ELSE UNCHANGED <<ticket, slas, statuses>>
       /\ UNCHANGED nonTicketVars

\* write(vals) on the ticket: the whole override, super().write() with its
\* constraints and its core SLA apply (keep_reached=True), the compression
\* to one policy and the cleanup included.  The call's log keeps the
\* statuses the cleanup unlinks.
WriteStep(vals) ==
    LET out == WriteVals(vals, ticket)
        cmds == VGet(out, "sla_ids", <<>>)
        existing == ApplyCommands(cmds, ticket.sla_ids, slas).existing
        written == AssignVals(ticket, out, slas)
        ok == ConstraintsHold(written, out)
        applied == IF DOMAIN out \cap SlaResetTrigger # {}
                   THEN CoreSlaApply(existing, written, statuses, TRUE)
                   ELSE statuses
        rec == WriteCompressSla(written)
        left == CleanupObsoleteSlaStatuses(existing, out, rec, applied)
    IN /\ ~form.open
       /\ ticket.exists
       /\ CmdIds(VGet(vals, "sla_ids", <<>>)) \subseteq slas
       /\ NumCreates(cmds) <= Cardinality(SlaIds \ slas)
       /\ last' = [op |-> "write", vals |-> vals, out |-> out, ok |-> ok,
                   to_unlink |-> IF ok THEN applied \ left ELSE {}]
       /\ form' = NoForm
       /\ IF ok
          THEN /\ ticket' = rec
               /\ slas' = existing
               /\ statuses' = left
          ELSE UNCHANGED <<ticket, slas, statuses>>
       /\ UNCHANGED nonTicketVars

\* The SLA engine flags an open status of the ticket as reached.
EngineReach ==
    /\ ~form.open
    /\ \E st \in statuses :
          /\ ~st.reached
          /\ statuses' = (statuses \ {st}) \cup {[st EXCEPT !.reached = TRUE]}
    /\ UNCHANGED <<slas, ticket, form, last>>
    /\ UNCHANGED nonTicketVars

\* A recordset read from the database, in the order of its model
RECURSIVE Ordered(_)
Ordered(ids) ==
    IF ids = {} THEN <<>>
    ELSE <<FirstId(ids)>> \o Ordered(ids \ {FirstId(ids)})

\* The record a form edits: the ticket, or a new record when there is none.
\* Its sla_ids keep the order in which the client lists them.
FormRecord ==
    LET rec == IF ticket.exists THEN ticket ELSE DefaultRecord
    IN [rec EXCEPT !.sla_ids = Ordered(rec.sla_ids)]

\* _onchange_category_id_set_team_and_user, "1) Team"
OnchangeTeam(rec) ==
    LET category == rec.category_id
        parent == ClosestTeamParent(CatParent[category])
        default_team == DefaultTeam(EnvCompany)
    IN IF CatTeam[category] # 0
       THEN [rec EXCEPT !.team_id = CatTeam[category]]
       ELSE IF rec.team_id = 0
            THEN IF parent # 0
                 THEN [rec EXCEPT !.team_id = CatTeam[parent]]
                 ELSE IF default_team # 0
                      THEN [rec EXCEPT !.team_id = default_team]
                      ELSE rec
            ELSE rec

\* _onchange_category_id_set_team_and_user, "2) Assignee"
OnchangeUser(rec) ==
    IF rec.team_id # 0 /\ TeamAssignMethod[rec.team_id] = "category"
    THEN [rec EXCEPT !.user_id =
                CategoryUserIfMember(rec.category_id, rec.team_id)]
    ELSE rec

\* _onchange_category_id_set_team_and_user, "3) Default SLA selection"
OnchangeDefaultSla(rec) ==
    LET default_slas ==
            {sla \in slas :
                SlaCategories[sla] \cap ParentOf(rec.category_id) # {}}
    IN IF ~rec.sla_opt_out /\ rec.sla_ids = <<>> /\ default_slas # {}
       THEN [rec EXCEPT !.sla_ids = <<FirstId(default_slas)>>]
       ELSE rec

\* _onchange_category_id_set_team_and_user, for the one record of the form
OnchangeCategoryIdSetTeamAndUser(rec) ==
    IF rec.category_id = 0 THEN rec
    ELSE OnchangeDefaultSla(OnchangeUser(OnchangeTeam(rec)))

\* "4) Assignee domain" and _onchange_team_id_set_user_domain
UserDomain(rec) == IF rec.team_id # 0 THEN TeamMembers[rec.team_id] ELSE {}

\* _onchange_sla_ids_limit_one
OnchangeSlaIdsLimitOne(rec) ==
    IF rec.sla_ids # <<>> /\ Len(rec.sla_ids) > 1
    THEN [rec EXCEPT !.sla_ids = <<Head(rec.sla_ids)>>]
    ELSE rec

\* _onchange_sla_ids_domain: the policies its domain for sla_ids selects
OnchangeSlaIdsDomain(rec) ==
    IF rec.sla_opt_out THEN {}
    ELSE {sla \in slas :
            /\ IF rec.team_id # 0
               THEN SlaTeam[sla] = 0 \/ SlaTeam[sla] = rec.team_id
               ELSE SlaTeam[sla] = 0
            /\ SlaPriorityAll[sla] \/ SlaPriority[sla] = rec.priority
            /\ rec.stage_id # 0 => SlaStageSeq[sla] >= rec.stage_id
            /\ IF rec.category_id # 0
               THEN SlaCategories[sla] = {}
                       \/ SlaCategories[sla] \cap ParentOf(rec.category_id) # {}
               ELSE SlaCategories[sla] = {}
            /\ IF rec.tag_ids # {}
               THEN SlaTags[sla] = {} \/ SlaTags[sla] \cap rec.tag_ids # {}
               ELSE SlaTags[sla] = {}}

\* The user picks a category in the form: the onchange methods of
\* category_id run, then those of the fields they changed.
OnchangeCategory ==
    /\ ~form.open
    /\ \E c \in Categories :
          LET rec == OnchangeSlaIdsLimitOne(OnchangeCategoryIdSetTeamAndUser(
                         [FormRecord EXCEPT !.category_id = c]))
          IN form' = [open |-> TRUE, field |-> "category_id", edit |-> <<c>>,
                      rec |-> rec,
                      domains |-> {"user_id", "sla_ids"},
                      user_id |-> UserDomain(rec),
                      sla_ids |-> OnchangeSlaIdsDomain(rec)]
    /\ last' = [op |-> "onchange"]
    /\ UNCHANGED <<slas, ticket, statuses>>
    /\ UNCHANGED nonTicketVars

\* The user selects policies in the form, `sel` in the order listed.
FormSelections ==
    {<<a>> : a \in SlaIds} \cup
    {<<a, b>> : a \in 1..NumInitialSlas, b \in 1..NumInitialSlas}

OnchangeSlaIds ==
    /\ ~form.open
    /\ \E sel \in FormSelections :
          /\ Range(sel) \subseteq slas
          /\ Len(sel) = Cardinality(Range(sel))
          /\ form' = [open |-> TRUE, field |-> "sla_ids", edit |-> sel,
                      rec |-> OnchangeSlaIdsLimitOne(
                                  [FormRecord EXCEPT !.sla_ids = sel]),
                      domains |-> {}, user_id |-> {}, sla_ids |-> {}]
    /\ last' = [op |-> "onchange"]
    /\ UNCHANGED <<slas, ticket, statuses>>
    /\ UNCHANGED nonTicketVars

\* The user picks a team in the form: the onchange methods of team_id run,
\* _onchange_team_id_set_user_domain and _onchange_sla_ids_domain.  Both
\* return a domain and assign no field of the record.
OnchangeTeamId ==
    /\ ~form.open
    /\ \E t \in Teams \cup {0} :
          LET rec == [FormRecord EXCEPT !.team_id = t]
          IN form' = [open |-> TRUE, field |-> "team_id", edit |-> <<t>>,
                      rec |-> rec,
                      domains |-> {"user_id", "sla_ids"},
                      user_id |-> UserDomain(rec),
                      sla_ids |-> OnchangeSlaIdsDomain(rec)]
    /\ last' = [op |-> "onchange"]
    /\ UNCHANGED <<slas, ticket, statuses>>
    /\ UNCHANGED nonTicketVars

\* The user discards the form.
FormDiscard ==
    /\ form.open
    /\ form' = NoForm
    /\ UNCHANGED <<slas, ticket, statuses, last>>
    /\ UNCHANGED nonTicketVars

\* Callers that set category, team and assignee, in a database without SLA
\* policies.
AssignCreateInputs ==
    {Vals(c, t, u, {}, {}) :
        c \in Opt(Categories), t \in Opt(Teams), u \in Opt(Users)}

AssignWriteInputs ==
    {Vals(c, t, u, {}, {}) :
        c \in Opt(Categories), t \in Opt(Teams \cup {0}),
        u \in Opt(Users \cup {0})}

CreateAssign == \E vals \in AssignCreateInputs : CreateStep(vals)

WriteAssign == \E vals \in AssignWriteInputs : WriteStep(vals)

InitAssign ==
    /\ BootIdle
    /\ ParamIdle
    /\ ProvIdle
    /\ InstIdle
    /\ ErpIdle
    /\ slas = {}
    /\ ticket = NoTicket
    /\ statuses = {}
    /\ form = NoForm
    /\ last = NoCall

NextAssign ==
    \/ CreateAssign
    \/ WriteAssign
    \/ OnchangeCategory
    \/ OnchangeTeamId
    \/ FormDiscard

SpecAssign == InitAssign /\ [][NextAssign]_vars

\* Callers that pass many2many commands for sla_ids.
CmdsCreateInputs ==
    {Vals(c, {}, {}, s, {}) : c \in Opt({4}), s \in Opt(SlaCmdLists)}

CmdsWriteInputs == {[sla_ids |-> s] : s \in SlaCmdLists}

CreateCmds == \E vals \in CmdsCreateInputs : CreateStep(vals)

WriteCmds == \E vals \in CmdsWriteInputs : WriteStep(vals)

InitCmds ==
    /\ BootIdle
    /\ ParamIdle
    /\ ProvIdle
    /\ InstIdle
    /\ ErpIdle
    /\ slas = 1..NumInitialSlas
    /\ ticket = NoTicket
    /\ statuses = {}
    /\ form = NoForm
    /\ last = NoCall

NextCmds == CreateCmds \/ WriteCmds \/ OnchangeSlaIds \/ FormDiscard

SpecCmds == InitCmds /\ [][NextCmds]_vars

\* Callers that set the category, one explicit SLA policy and the fields the
\* SLA matching reads.
MatchCategoryInputs == {2, 3, 4}
MatchCmdLists ==
    {<<Cmd(6, 0, <<a>>)>> : a \in 1..NumInitialSlas} \cup {<<Cmd(5, 0, <<>>)>>}

MatchCreateInputs ==
    {Vals(c, {}, {}, s, o) :
        c \in Opt(MatchCategoryInputs), s \in Opt(MatchCmdLists),
        o \in Opt({TRUE})}

MatchWriteInputs ==
    {[category_id |-> c] : c \in MatchCategoryInputs}
    \cup {[team_id |-> t] : t \in Teams}
    \cup {[sla_ids |-> s] : s \in MatchCmdLists}
    \cup {[sla_opt_out |-> b] : b \in BOOLEAN}
    \cup {[priority |-> p] : p \in Priorities}
    \cup {[stage_id |-> q] : q \in StageSeqs}
    \cup {[tag_ids |-> g] : g \in SUBSET Tags}

CreateMatch == \E vals \in MatchCreateInputs : CreateStep(vals)

WriteMatch == \E vals \in MatchWriteInputs : WriteStep(vals)

InitMatch ==
    /\ BootIdle
    /\ ParamIdle
    /\ ProvIdle
    /\ InstIdle
    /\ ErpIdle
    /\ slas = 1..NumInitialSlas
    /\ ticket = NoTicket
    /\ statuses = {}
    /\ form = NoForm
    /\ last = NoCall

NextMatch ==
    \/ CreateMatch \/ WriteMatch \/ EngineReach
    \/ OnchangeCategory \/ FormDiscard

SpecMatch == InitMatch /\ [][NextMatch]_vars

-----------------------------------------------------------------------------
(***************************************************************************)
(* connect-odoo.py: the configuration-parameter setter _ensure_param.      *)
(* Strings are sequences of characters, so that str.strip() is a function  *)
(* that can change them.                                                   *)
(***************************************************************************)

MaxLen == 2
Alphabet == {"u", " "}
Strings == UNION {[1..n -> Alphabet] : n \in 0..MaxLen}

\* The ir.config_parameter keys of the callers
ParamKeys == {"integration.n8n.base_url", "web.base.url"}

\* A row of ir.config_parameter, and the key without row
Stored(value) == [set |-> TRUE, value |-> value]
NotStored == [set |-> FALSE, value |-> <<>>]

RECURSIVE LStrip(_)
LStrip(str) ==
    IF str # <<>> /\ Head(str) = " " THEN LStrip(Tail(str)) ELSE str

RECURSIVE RStrip(_)
RStrip(str) ==
    IF str # <<>> /\ str[Len(str)] = " "
    THEN RStrip(SubSeq(str, 1, Len(str) - 1))
    ELSE str

\* str.strip()
Strip(str) == RStrip(LStrip(str))

\* icp.get_param(key) or "": the stored value, "" for a key without row
GetParamOrEmpty(params, key) ==
    IF params[key].set THEN params[key].value ELSE <<>>

\* icp.set_param(key, value) with a str value: the row holds the value
SetParam(params, key, value) == [params EXCEPT ![key] = Stored(value)]

\* _ensure_param(env, key, value): the value returned
EnsureParamChanged(params, key, value) ==
    LET current == Strip(GetParamOrEmpty(params, key))
    IN current # value

\* _ensure_param(env, key, value); the log keeps, for the key, the value
\* passed, the value returned, the row before the call and whether the call
\* before it on the key passed the same value.
EnsureParam ==
    \E key \in ParamKeys, value \in Strings :
        LET changed == EnsureParamChanged(icp, key, value)
        IN /\ icp' = IF changed THEN SetParam(icp, key, value) ELSE icp
           /\ ep_log' = [ep_log EXCEPT ![key] =
                            [called |-> TRUE, value |-> value,
                             changed |-> changed, before |-> icp[key],
                             repeated |-> @.called /\ @.value = value]]
           /\ UNCHANGED nonParamVars

NotCalled ==
    [called |-> FALSE, value |-> <<>>, changed |-> FALSE,
     before |-> NotStored, repeated |-> FALSE]

InitParam ==
    /\ BootIdle
    /\ TicketIdle
    /\ ProvIdle
    /\ InstIdle
    /\ ErpIdle
    /\ icp \in [ParamKeys -> {NotStored} \cup {Stored(v) : v \in Strings}]
    /\ ep_log = [key \in ParamKeys |-> NotCalled]

NextParam == EnsureParam

SpecParam == InitParam /\ [][NextParam]_vars

-----------------------------------------------------------------------------
(***************************************************************************)
(* The credential provisioner: main() of connect-odoo.py.  A key value is  *)
(* a positive integer, 0 is the empty string (no key, no file, a masked    *)
(* value).  One run of main() is one action; what the ERP and the file     *)
(* system answer during the run is drawn from ApiOutcomes and BOOLEAN.     *)
(***************************************************************************)

\* The runs of main() one behaviour contains
MaxRuns == 2

\* TARGET_ENV_NAME and TARGET_TIER values: unset and a name
EnvNames == {<<>>, <<"u">>}
Tiers == {<<>>, <<"u">>}

\* N8N_URL values, "/" included
ProvUrls == {<<"u">>, <<"u", "/">>}

\* TARGET_DB_NAME and PGDATABASE/POSTGRES_DB values
DbNames == {<<>>, <<"u">>}

\* str.rstrip("/")
RECURSIVE RStripSlash(_)
RStripSlash(str) ==
    IF str # <<>> /\ str[Len(str)] = "/"
    THEN RStripSlash(SubSeq(str, 1, Len(str) - 1))
    ELSE str

\* _resolve_db_name(): the explicit name, else <tier>_<env>_db, else the
\* container's database name, else ""
ResolveDbName(target_db, e, t, container_db) ==
    IF Strip(target_db) # <<>> THEN Strip(target_db)
    ELSE IF Strip(e) # <<>> /\ Strip(t) # <<>>
         THEN Strip(t) \o <<"_">> \o Strip(e) \o <<"_", "db">>
    ELSE Strip(container_db)

\* _secrets_path / _container_secrets_path: base, environment part, tier
\* part; blank parts fall back to "default" and "dev"
SecretsPath(e, t) ==
    <<"/opt/app-dev/odoo/.secrets",
      IF Strip(e) # <<>> THEN Strip(e) ELSE <<"default">>,
      IF Strip(t) # <<>> THEN Strip(t) ELSE <<"dev">>, "api-key.txt">>

ContainerSecretsPath(e, t) ==
    <<"/var/lib/odoo/.secrets",
      IF Strip(e) # <<>> THEN Strip(e) ELSE <<"default">>,
      IF Strip(t) # <<>> THEN Strip(t) ELSE <<"dev">>, "api-key.txt">>

\* The messages of the exception Registry(db_name).cursor() may raise, as
\* words
RegistryMessages ==
    { <<"database", "u", "does", "not", "exist">>,
      <<"FATAL:", "Database", "u", "Does", "Not", "Exist">>,
      <<"role", "u", "does", "not", "exist">>,
      <<"connection", "refused">> }

\* str.lower() on a word
LowerWord(w) ==
    CASE w = "FATAL:" -> "fatal:"
      [] w = "Database" -> "database"
      [] w = "Does" -> "does"
      [] w = "Not" -> "not"
      [] w = "Exist" -> "exist"
      [] OTHER -> w

Lower(msg) == [i \in 1..Len(msg) |-> LowerWord(msg[i])]

\* "does not exist" in msg.lower()
MentionsDoesNotExist(msg) ==
    \E i \in 1..(Len(msg) - 2) :
        SubSeq(Lower(msg), i, i + 2) = <<"does", "not", "exist">>

\* What env["res.users.apikey"] is: missing, a model without
\* _generate_key, a model with it
ApiModels == {"none", "no_generate", "generate"}

\* What the calls of one run answer: the two creates of the preferred key,
\* the generate-and-create, the create without key and whether its record
\* shows the raw key
ApiOutcomes ==
    { o \in [pref_ok : BOOLEAN, pref_alt_ok : BOOLEAN, gen_ok : BOOLEAN,
             fb_ok : BOOLEAN, fb_raw : BOOLEAN] :
        /\ o.pref_ok => ~o.pref_alt_ok
        /\ o.gen_ok => ~o.fb_ok
        /\ o.fb_raw => o.fb_ok }

\* Of the outcomes that give one run the same course, the one kept: a call
\* that is not made is written as answered
OutcomeDistinguished(o, preferred_key, w_host, w_cont, write_host,
                     write_cont) ==
    /\ preferred_key = 0 => o.pref_ok
    /\ preferred_key # 0 /\ (o.pref_ok \/ o.pref_alt_ok) => o.gen_ok
    /\ ~write_host => w_host
    /\ ~write_cont => w_cont

\* A row of res.users.apikey of the technical user
ApiKeyRow(note, key) == [note |-> note, key |-> key]

\* f"{purpose}-file"
FileNote(purpose) == purpose \o "-file"

\* f"n8n-{int(time.time())}"
AltPurpose == "n8n-" \o "time"

\* _ensure_api_key ending without a return statement
NoPair(rows, x) ==
    [returned |-> FALSE, created |-> FALSE, key |-> 0, rows |-> rows,
     raised |-> x]

\* _ensure_api_key(env, user_id, purpose, preferred_key): whether it
\* returned a pair, the pair, the rows afterwards and whether a create it
\* made raised.  fresh is the value the generator yields.
EnsureApiKey(model, o, rows, purpose, preferred_key, fresh) ==
    LET Pair(c, k, r, x) ==
            [returned |-> TRUE, created |-> c, key |-> k, rows |-> r,
             raised |-> x]
        pref_raised == preferred_key # 0
    IN IF model = "none" THEN Pair(FALSE, 0, rows, FALSE)
       ELSE IF preferred_key # 0 /\ o.pref_ok
            THEN Pair(TRUE, preferred_key,
                      rows \cup {ApiKeyRow(purpose, preferred_key)}, FALSE)
       ELSE IF preferred_key # 0 /\ o.pref_alt_ok
            THEN Pair(TRUE, preferred_key,
                      rows \cup {ApiKeyRow(FileNote(purpose), preferred_key)},
                      TRUE)
       ELSE IF \E r \in rows : r.note = purpose
            THEN Pair(FALSE, 0, rows, pref_raised)
       ELSE IF model = "no_generate" THEN NoPair(rows, pref_raised)
       ELSE IF o.gen_ok
            THEN Pair(TRUE, fresh, rows \cup {ApiKeyRow(purpose, fresh)},
                      pref_raised)
       ELSE IF o.fb_ok
            THEN Pair(TRUE, IF o.fb_raw THEN fresh ELSE 0,
                      rows \cup {ApiKeyRow(purpose, fresh)}, TRUE)
       ELSE Pair(FALSE, 0, rows, TRUE)

\* _read_text(path): the stripped content, "" without file
ReadText(file) == file

\* _write_text(path, content) of a key value: the file afterwards
WriteText(file, content, ok) == IF ok THEN content ELSE file

\* main() returning before the database is opened: no database name, or
\* Registry(db_name).cursor() raising
MainNoDatabase ==
    /\ run.n < MaxRuns
    /\ \E target_db \in DbNames, container_db \in DbNames,
          registry \in {<<>>} \cup RegistryMessages :
        LET db_name == ResolveDbName(target_db, env_name, tier, container_db)
        IN /\ db_name = <<>> \/ registry # <<>>
           /\ run' = [n |-> run.n + 1,
                      db_name |-> db_name,
                      registry |-> IF db_name = <<>> THEN <<>> ELSE registry,
                      opened |-> FALSE,
                      crashed |-> FALSE,
                      rc |-> IF db_name = <<>> THEN 0
                             ELSE IF MentionsDoesNotExist(registry) THEN 0
                             ELSE 1,
                      stderr |-> db_name # <<>>
                                 /\ ~MentionsDoesNotExist(registry),
                      wrote |-> FALSE,
                      host_before |-> secrets, host_after |-> secrets,
                      cont_before |-> secrets_container,
                      cont_after |-> secrets_container]
    /\ UNCHANGED <<env_name, tier, api_model, secrets, secrets_container,
                   apikeys, n8n_user, next_key>>
    /\ UNCHANGED paramVars
    /\ UNCHANGED nonProvVars

\* main() with the database opened: the parameter, the technical user, the
\* API key and the two secrets files.  A call of _ensure_api_key that
\* returns no pair makes the unpacking raise: outside the try the run ends
\* there and the cursor rolls the database back.
MainProvision ==
    /\ run.n < MaxRuns
    /\ \E target_db \in DbNames, container_db \in DbNames :
          ResolveDbName(target_db, env_name, tier, container_db) # <<>>
    /\ \E url \in ProvUrls, o \in ApiOutcomes,
          w_host \in BOOLEAN, w_cont \in BOOLEAN :
        LET n8n_url == RStripSlash(url)
            param_key == "integration.n8n.base_url"
            changed == EnsureParamChanged(icp, param_key, n8n_url)
            existing_secret ==
                IF env_name # <<>> /\ tier # <<>> THEN ReadText(secrets)
                ELSE 0
            first == EnsureApiKey(api_model, o, apikeys, "n8n",
                                  existing_secret, next_key)
            try_alt == /\ existing_secret = 0
                       /\ first.returned
                       /\ ~(first.created /\ first.key # 0)
                       /\ ~first.created
                       /\ env_name # <<>> /\ tier # <<>>
            alt == EnsureApiKey(api_model, o, first.rows, AltPurpose, 0,
                                next_key)
            final == IF try_alt /\ alt.returned THEN alt ELSE first
            crashed == ~first.returned
            write_host == existing_secret = 0 /\ final.created
                          /\ final.key # 0
            write_cont == final.key # 0
        IN /\ OutcomeDistinguished(o, existing_secret, w_host, w_cont,
                                   write_host, write_cont)
           /\ icp' = IF crashed \/ ~changed THEN icp
                     ELSE SetParam(icp, param_key, n8n_url)
           /\ ep_log' = IF crashed THEN ep_log
                        ELSE [ep_log EXCEPT ![param_key] =
                                [called |-> TRUE, value |-> n8n_url,
                                 changed |-> changed,
                                 before |-> icp[param_key],
                                 repeated |-> @.called /\ @.value = n8n_url]]
           /\ n8n_user' = IF crashed THEN n8n_user ELSE TRUE
           /\ apikeys' = IF crashed THEN apikeys ELSE final.rows
           /\ next_key' = IF ~crashed /\ final.rows # apikeys
                             /\ \E r \in final.rows : r.key = next_key
                          THEN next_key + 1 ELSE next_key
           /\ secrets' = IF ~crashed /\ write_host
                         THEN WriteText(secrets, final.key, w_host)
                         ELSE secrets
           /\ secrets_container' =
                 IF ~crashed /\ write_cont
                 THEN WriteText(secrets_container, final.key, w_cont)
                 ELSE secrets_container
           /\ run' = [n |-> run.n + 1,
                      opened |-> TRUE,
                      crashed |-> crashed,
                      rc |-> IF crashed THEN 1 ELSE 0,
                      stderr |-> crashed \/ (write_host /\ ~w_host),
                      wrote |-> ~crashed,
                      host_before |-> secrets, host_after |-> secrets',
                      cont_before |-> secrets_container,
                      cont_after |-> secrets_container',
                      secrets_file |-> SecretsPath(env_name, tier),
                      secrets_file_container |->
                          ContainerSecretsPath(env_name, tier),
                      existing_secret |-> existing_secret,
                      had_key |-> \E r \in apikeys : r.note = "n8n",
                      created_key |-> ~crashed /\ final.created,
                      key_val |-> IF crashed THEN 0 ELSE final.key,
                      tried_alt |-> try_alt,
                      raised |-> first.raised \/ (try_alt /\ alt.raised),
                      no_pair |-> ~final.returned
                                  \/ (try_alt /\ ~alt.returned),
                      write_failed |-> ~crashed
                                       /\ \/ write_host /\ ~w_host
                                          \/ write_cont /\ ~w_cont]
           /\ UNCHANGED <<env_name, tier, api_model>>
    /\ UNCHANGED nonProvVars

\* The environment is rebuilt between two runs: a new database, the files
\* of the secrets directories kept
DatabaseRebuilt ==
    /\ run.n >= 1
    /\ apikeys # {} \/ n8n_user
    /\ apikeys' = {}
    /\ n8n_user' = FALSE
    /\ icp' = [key \in ParamKeys |-> NotStored]
    /\ UNCHANGED <<env_name, tier, api_model, secrets, secrets_container,
                   next_key, run, ep_log>>
    /\ UNCHANGED nonProvVars

\* The host's secrets file is removed between two runs
CacheRemoved ==
    /\ run.n >= 1
    /\ secrets # 0
    /\ secrets' = 0
    /\ UNCHANGED <<env_name, tier, api_model, secrets_container, apikeys,
                   n8n_user, next_key, run>>
    /\ UNCHANGED paramVars
    /\ UNCHANGED nonProvVars

InitProv ==
    /\ BootIdle
    /\ TicketIdle
    /\ InstIdle
    /\ ErpIdle
    /\ icp = [key \in ParamKeys |-> NotStored]
    /\ ep_log = [key \in ParamKeys |-> NotCalled]
    /\ env_name \in EnvNames
    /\ tier \in Tiers
    /\ api_model \in ApiModels
    /\ secrets = 0
    /\ secrets_container = 0
    /\ apikeys = {}
    /\ n8n_user = FALSE
    /\ next_key = 1
    /\ run = [n |-> 0]

NextProv ==
    \/ MainNoDatabase
    \/ MainProvision
    \/ DatabaseRebuilt
    \/ CacheRemoved

SpecProv == InitProv /\ [][NextProv]_vars

-----------------------------------------------------------------------------
(***************************************************************************)
(* The module installer: install_modules.py.  A file is a sequence of      *)
(* lines, a line and a module name are sequences of one-character strings. *)
(***************************************************************************)

\* The runs of main() one behaviour contains
MaxInstallRuns == 2

\* The longest line of the generated files
MaxLineLen == 3

\* The characters of the generated lines; "!" is neither alphanumeric nor
\* "_" or "-"
FileAlphabet == {"a", "b", ",", " ", "#", "!"}

FileLines == UNION {[1..n -> FileAlphabet] : n \in 0..MaxLineLen}

\* A file with two lines: "crm, # comment" and "sale;stock"
ExampleLines ==
    << <<"c", "r", "m", ",", " ", "#", " ", "c", "o", "m", "m", "e", "n", "t">>,
       <<"s", "a", "l", "e", ";", "s", "t", "o", "c", "k">> >>

MissingFile == [exists |-> FALSE, lines |-> <<>>]

ModuleFiles ==
    {MissingFile, [exists |-> TRUE, lines |-> <<>>],
     [exists |-> TRUE, lines |-> ExampleLines]}
    \cup {[exists |-> TRUE, lines |-> <<l>>] : l \in FileLines}

\* ch.isalnum() on the characters in use
IsAlnum(ch) ==
    ch \in {"a", "b", "c", "e", "k", "l", "m", "n", "o", "r", "s", "t"}

\* line.split("#", 1)[0]
RECURSIVE StripComment(_)
StripComment(line) ==
    IF line = <<>> \/ Head(line) = "#" THEN <<>>
    ELSE <<Head(line)>> \o StripComment(Tail(line))

\* "\n".join(raw)
RECURSIVE JoinLines(_)
JoinLines(raw) ==
    IF raw = <<>> THEN <<>>
    ELSE IF Len(raw) = 1 THEN raw[1]
    ELSE raw[1] \o <<"\n">> \o JoinLines(Tail(raw))

\* str.replace(old, new) for one-character old and new
Replace(str, old, new) ==
    [i \in 1..Len(str) |-> IF str[i] = old THEN new ELSE str[i]]

IsSpace(ch) == ch \in {" ", "\n"}

\* str.split(): the maximal runs of characters that are not whitespace
RECURSIVE SplitFrom(_, _)
SplitFrom(str, chunk) ==
    IF str = <<>> THEN (IF chunk = <<>> THEN <<>> ELSE <<chunk>>)
    ELSE IF IsSpace(Head(str))
         THEN (IF chunk = <<>> THEN <<>> ELSE <<chunk>>)
              \o SplitFrom(Tail(str), <<>>)
    ELSE SplitFrom(Tail(str), chunk \o <<Head(str)>>)

Split(str) == SplitFrom(str, <<>>)

\* all(ch.isalnum() or ch in ("_", "-") for ch in c)
ValidName(c) ==
    \A i \in 1..Len(c) : IsAlnum(c[i]) \/ c[i] \in {"_", "-"}

\* The loop over the chunks: blank and invalid chunks are skipped
RECURSIVE Tokens(_)
Tokens(chunks) ==
    IF chunks = <<>> THEN <<>>
    ELSE IF Head(chunks) = <<>> \/ ~ValidName(Head(chunks))
         THEN Tokens(Tail(chunks))
    ELSE <<Head(chunks)>> \o Tokens(Tail(chunks))

\* The dedupe loop: a token is appended unless it was seen
RECURSIVE DedupeFrom(_, _)
DedupeFrom(tokens, seen) ==
    IF tokens = <<>> THEN <<>>
    ELSE IF Head(tokens) \in seen THEN DedupeFrom(Tail(tokens), seen)
    ELSE <<Head(tokens)>>
         \o DedupeFrom(Tail(tokens), seen \cup {Head(tokens)})

\* read_modules_list(path)
ReadModulesList(file) ==
    IF ~file.exists THEN <<>>
    ELSE LET raw == [i \in 1..Len(file.lines) |-> StripComment(file.lines[i])]
             text == Replace(Replace(JoinLines(raw), ";", ","), ",", " ")
         IN DedupeFrom(Tokens(Split(text)), {})

\* Module names
Name_a == <<"a">>
Name_ba == <<"b", "a">>
Name_aa == <<"a", "a">>
Name_ab == <<"a", "b">>
Name_crm == <<"c", "r", "m">>
Name_sale == <<"s", "a", "l", "e">>
Name_stock == <<"s", "t", "o", "c", "k">>

\* The rows of ir.module.module; the name "b" has none
KnownModules ==
    {Name_a, Name_ba, Name_aa, Name_ab, Name_crm, Name_sale, Name_stock}

\* Their states before the first run
InitialModState ==
    [m \in KnownModules |->
        CASE m = Name_a -> "uninstalled"
          [] m = Name_ba -> "installed"
          [] m = Name_aa -> "to install"
          [] m = Name_ab -> "to upgrade"
          [] m = Name_crm -> "installed"
          [] m = Name_sale -> "uninstalled"
          [] m = Name_stock -> "uninstalled"]

\* The check of the state with the queued states left out
InstalledOrQueued_InstalledOnly(state) == state = "installed"

\* rec.state in ("installed", "to install", "to upgrade")
InstalledOrQueued(state) ==
    state \in {"installed", "to install", "to upgrade"}

\* The loop of main() over the modules: the names appended to to_install
RECURSIVE ToInstall(_, _)
ToInstall(modules, states) ==
    IF modules = <<>> THEN <<>>
    ELSE IF Head(modules) \notin DOMAIN states
         THEN ToInstall(Tail(modules), states)
    ELSE IF InstalledOrQueued(states[Head(modules)])
         THEN ToInstall(Tail(modules), states)
    ELSE <<Head(modules)>> \o ToInstall(Tail(modules), states)

\* The names main() reports with "Module not found"
RECURSIVE NotFound(_, _)
NotFound(modules, states) ==
    IF modules = <<>> THEN <<>>
    ELSE IF Head(modules) \notin DOMAIN states
         THEN <<Head(modules)>> \o NotFound(Tail(modules), states)
    ELSE NotFound(Tail(modules), states)

\* The order of the characters
CharOrder ==
    <<"-", "_", "a", "b", "c", "e", "k", "l", "m", "n", "o", "r", "s", "t">>

CharRank(ch) == CHOOSE i \in 1..Len(CharOrder) : CharOrder[i] = ch

\* a < b on names
RECURSIVE NameLess(_, _)
NameLess(a, b) ==
    IF b = <<>> THEN FALSE
    ELSE IF a = <<>> THEN TRUE
    ELSE IF Head(a) # Head(b) THEN CharRank(Head(a)) < CharRank(Head(b))
    ELSE NameLess(Tail(a), Tail(b))

\* sorted(names)
RECURSIVE Sorted(_)
Sorted(names) ==
    IF names = <<>> THEN <<>>
    ELSE LET least == CHOOSE i \in 1..Len(names) :
                          \A j \in 1..Len(names) :
                              ~NameLess(names[j], names[i])
             rest == [k \in 1..(Len(names) - 1) |->
                         IF k < least THEN names[k] ELSE names[k + 1]]
         IN <<names[least]>> \o Sorted(rest)

\* What running the odoo command line gives: Popen raising, or the exit
\* status of the process
CliOutcomes ==
    {[raised |-> TRUE, returncode |-> 0]}
    \cup {[raised |-> FALSE, returncode |-> c] : c \in {0, 1, 2}}

CliSucceeds == [raised |-> FALSE, returncode |-> 0]

\* stream_odoo_cli with the exit status dropped
StreamOdooCli_StatusDropped(outcome) == IF outcome.raised THEN 1 ELSE 0

\* stream_odoo_cli(cmd): the value returned
StreamOdooCli(outcome) == IF outcome.raised THEN 1 ELSE outcome.returncode

\* One run of main()
InstallMain ==
    /\ inst.n < MaxInstallRuns
    /\ \E outcome \in CliOutcomes :
        LET modules == ReadModulesList(modules_txt)
            to_install == ToInstall(modules, mod_state)
            not_found == NotFound(modules, mod_state)
            mods == Sorted(to_install)
            called == modules # <<>> /\ inst_db # <<>>
                      /\ to_install # <<>>
            code == StreamOdooCli(outcome)
        IN /\ ~called => outcome = CliSucceeds
           /\ mod_state' =
                 IF called /\ outcome = CliSucceeds
                 THEN [m \in KnownModules |->
                          IF \E i \in 1..Len(mods) : mods[i] = m
                          THEN "installed" ELSE mod_state[m]]
                 ELSE mod_state
           /\ inst' =
                 [n |-> inst.n + 1,
                  modules |-> modules,
                  states |-> mod_state,
                  rc |-> IF modules = <<>> THEN 0
                         ELSE IF inst_db = <<>> THEN 2
                         ELSE IF to_install = <<>> THEN 0
                         ELSE IF code # 0 THEN 4
                         ELSE 0,
                  inspected |-> modules # <<>> /\ inst_db # <<>>,
                  not_found |-> IF modules # <<>> /\ inst_db # <<>>
                                THEN not_found ELSE <<>>,
                  cli_calls |-> IF called THEN 1 ELSE 0,
                  mods |-> IF called THEN mods ELSE <<>>,
                  outcome |-> outcome,
                  code |-> IF called THEN code ELSE 0]
    /\ UNCHANGED <<modules_txt, inst_db>>
    /\ UNCHANGED nonInstVars

InitInstall ==
    /\ BootIdle
    /\ TicketIdle
    /\ ParamIdle
    /\ ProvIdle
    /\ ErpIdle
    /\ modules_txt \in ModuleFiles
    /\ inst_db \in {<<>>, <<"u">>}
    /\ mod_state = InitialModState
    /\ inst = [n |-> 0]

NextInstall == InstallMain

SpecInstall == InitInstall /\ [][NextInstall]_vars

-----------------------------------------------------------------------------
(***************************************************************************)
(* The ERP bootstrapper: main() of the odoo bootstrap.py.  A string of the *)
(* environment is a sequence of items: separators (",", ";", " ") and      *)
(* words; a token is the sequence of items of one chunk.                   *)
(***************************************************************************)

\* LANG_CODES = ["en_US", "he_IL"]
LANG_CODES == << <<"en_US">>, <<"he_IL">> >>

\* USER_GROUPS = ["internal"]
USER_GROUPS == << <<"internal">> >>

\* The values of ODOO_LANGS tried; <<>> is the unset variable
OdooLangsValues ==
    { <<>>,
      <<" ">>,
      <<"he_IL">>,
      <<"en_US", ";", " ", "xx_XX">>,
      <<"xx_XX", ",", ",", "he_IL", " ">> }

\* The values of USER_GROUPS tried; <<>> is the unset variable
UserGroupsValues ==
    { <<>>,
      <<"Admin", ",", "base.group_portal", ";", "bogus">>,
      <<"internal", ",", "base.missing", ",", "manager", ",",
        "base.user_admin">> }

\* The values of TARGET_TIER tried
TierValues == {"prod", "dev"}

\* str.split(","): the chunks between the commas, empty ones included
RECURSIVE SplitCommaFrom(_, _)
SplitCommaFrom(str, chunk) ==
    IF str = <<>> THEN <<chunk>>
    ELSE IF Head(str) = ","
         THEN <<chunk>> \o SplitCommaFrom(Tail(str), <<>>)
    ELSE SplitCommaFrom(Tail(str), chunk \o <<Head(str)>>)

\* The loop of normalize_tokens: the stripped chunks that are not empty
RECURSIVE StrippedChunks(_)
StrippedChunks(chunks) ==
    IF chunks = <<>> THEN <<>>
    ELSE IF Strip(Head(chunks)) = <<>> THEN StrippedChunks(Tail(chunks))
    ELSE <<Strip(Head(chunks))>> \o StrippedChunks(Tail(chunks))

\* normalize_tokens(val) for a str
NormalizeTokensStr(val) ==
    IF val = <<>> THEN <<>>
    ELSE StrippedChunks(SplitCommaFrom(Replace(val, ";", ","), <<>>))

\* normalize_tokens(val) for a list of str
NormalizeTokensList(val) == StrippedChunks(val)

\* token.lower() on a word
LowerItem(w) == IF w = "Admin" THEN "admin" ELSE w

\* "." in token
Dotted(token) ==
    \E i \in 1..Len(token) :
        token[i] \in {"base.group_portal", "base.missing", "base.user_admin",
                      "base.group_user", "base.group_system",
                      "base.group_public"}

\* by_token.get(token.lower(), [])
ByToken(token) ==
    IF Len(token) # 1 THEN <<>>
    ELSE CASE LowerItem(token[1]) = "internal" -> <<"base.group_user">>
           [] LowerItem(token[1]) = "portal" -> <<"base.group_portal">>
           [] LowerItem(token[1]) = "public" -> <<"base.group_public">>
           [] LowerItem(token[1]) = "admin" -> <<"base.group_system">>
           [] LowerItem(token[1]) = "settings" -> <<"base.group_system">>
           [] LowerItem(token[1]) = "manager" -> <<"base.group_system">>
           [] OTHER -> <<>>

\* xmlids = [token] if "." in token else by_token.get(token.lower(), [])
XmlIds(token) ==
    IF Dotted(token)
    THEN (IF Len(token) = 1 THEN <<token[1]>> ELSE <<"base.missing">>)
    ELSE ByToken(token)

\* env.ref(xid): the model and id of the record, "missing" when it raises
Ref(xid) ==
    CASE xid = "base.group_user" -> [model |-> "res.groups", id |-> 1]
      [] xid = "base.group_portal" -> [model |-> "res.groups", id |-> 2]
      [] xid = "base.group_public" -> [model |-> "res.groups", id |-> 3]
      [] xid = "base.group_system" -> [model |-> "res.groups", id |-> 4]
      [] xid = "base.user_admin" -> [model |-> "res.users", id |-> 2]
      [] OTHER -> [model |-> "missing", id |-> 0]

\* All xmlids of the tokens, in order
RECURSIVE AllXmlIds(_)
AllXmlIds(tokens) ==
    IF tokens = <<>> THEN <<>>
    ELSE XmlIds(Head(tokens)) \o AllXmlIds(Tail(tokens))

\* The ids appended to group_ids, before the dedupe
RECURSIVE GroupIdsOf(_)
GroupIdsOf(xids) ==
    IF xids = <<>> THEN <<>>
    ELSE IF Ref(Head(xids)).model = "res.groups"
         THEN <<Ref(Head(xids)).id>> \o GroupIdsOf(Tail(xids))
    ELSE GroupIdsOf(Tail(xids))

\* resolve_groups(env, tokens)
ResolveGroups(tokens) == Dedupe(GroupIdsOf(AllXmlIds(tokens)), <<>>)

\* The warnings resolve_groups prints
GroupWarnings(tokens) ==
    {[msg |-> "Warning: group xmlid not found", about |-> <<xid>>] :
        xid \in {x \in Range(AllXmlIds(tokens)) : Ref(x).model = "missing"}}

\* The language codes res.lang knows
KnownLangs == {<<"en_US">>, <<"he_IL">>}

\* A message that is not printed
Msg_Silent(text) == [msg |-> "", about |-> <<>>]

\* A message without subject
Msg(text) == [msg |-> text, about |-> <<>>]

\* Lines 124-140: ensure_rtlcss_installed() inside try / except: pass, then
\* the language codes.  The tool is present, installed now, unavailable
\* after the attempt, or the call raises.
EnsureRtlcss ==
    /\ bs_pc = "rtlcss"
    /\ \E outcome \in {"present", "installed", "unavailable", "raise"} :
        /\ bs_log' = bs_log \cup
              CASE outcome = "installed" -> {Msg("rtlcss is available")}
                [] outcome = "unavailable" ->
                     {Msg("Warning: rtlcss not available after attempted install")}
                [] OTHER -> {}
        /\ bs_failed' = IF outcome \in {"unavailable", "raise"}
                        THEN bs_failed \cup {[step |-> "rtlcss", how |-> outcome]}
                        ELSE bs_failed
    /\ lang_codes' = IF Strip(odoo_langs) # <<>>
                     THEN NormalizeTokensStr(Strip(odoo_langs))
                     ELSE NormalizeTokensList(LANG_CODES)
    /\ bs_steps' = Append(bs_steps, "rtlcss")
    /\ bs_pc' = "requirements"
    /\ UNCHANGED <<odoo_langs, bs_tier, user_groups, lang_idx, activated,
                   group_ids, res_users, bs_rc>>
    /\ UNCHANGED nonErpVars

\* Lines 142-160: requirements.txt is missing, has no requirement, pip
\* installs them, pip exits with an error status, or reading the file raises
InstallRequirements ==
    /\ bs_pc = "requirements"
    /\ \E outcome \in {"no_file", "no_reqs", "pip_ok", "pip_failed", "raise"} :
        /\ bs_log' = IF outcome = "raise"
                     THEN bs_log \cup
                          {Msg("Warning: failed to install requirements")}
                     ELSE bs_log
        /\ bs_failed' = IF outcome \in {"pip_failed", "raise"}
                        THEN bs_failed \cup
                             {[step |-> "requirements", how |-> outcome]}
                        ELSE bs_failed
    /\ bs_steps' = Append(bs_steps, "requirements")
    /\ bs_pc' = "groups"
    /\ UNCHANGED <<odoo_langs, bs_tier, user_groups, lang_codes, lang_idx,
                   activated, group_ids, res_users, bs_rc>>
    /\ UNCHANGED nonErpVars

\* Lines 199-203: group_ids = resolve_groups(env, groups_tokens)
ResolveGroupsStep ==
    /\ bs_pc = "groups"
    /\ LET groups_tokens == IF user_groups # <<>>
                            THEN NormalizeTokensStr(user_groups)
                            ELSE NormalizeTokensList(USER_GROUPS)
       IN /\ group_ids' = ResolveGroups(groups_tokens)
          /\ bs_log' = bs_log \cup GroupWarnings(groups_tokens)
    /\ bs_steps' = Append(bs_steps, "groups")
    /\ lang_idx' = 1
    /\ bs_pc' = "langs"
    /\ UNCHANGED <<odoo_langs, bs_tier, user_groups, lang_codes, activated,
                   res_users, bs_failed, bs_rc>>
    /\ UNCHANGED nonErpVars

\* One iteration of the activation loop: Lang._activate_lang(code) returns
\* or raises
ActivateLang ==
    /\ bs_pc = "langs"
    /\ lang_idx <= Len(lang_codes)
    /\ \E raises \in BOOLEAN :
        LET code == lang_codes[lang_idx]
            ok == code \in KnownLangs /\ ~raises
        IN /\ code \notin KnownLangs => raises
           /\ activated' = IF ok THEN Append(activated, code) ELSE activated
           /\ bs_log' = IF ok THEN bs_log
                        ELSE bs_log \cup
                             {[msg |-> "Warning: failed to activate language",
                               about |-> code]}
           /\ bs_failed' = IF ok THEN bs_failed
                           ELSE bs_failed \cup
                                {[step |-> "lang", how |-> code]}
    /\ bs_steps' = Append(bs_steps, "lang")
    /\ lang_idx' = lang_idx + 1
    /\ UNCHANGED <<bs_pc, odoo_langs, bs_tier, user_groups, lang_codes,
                   group_ids, res_users, bs_rc>>
    /\ UNCHANGED nonErpVars

\* validate_enterprise(db_name): the problems it finds
Problems(code, web_ent_installed, ent_dir_ok) ==
    (IF code THEN {} ELSE {"missing 'database.enterprise_code'"})
    \cup (IF web_ent_installed THEN {}
          ELSE {"module 'web_enterprise' is not installed"})
    \cup (IF ent_dir_ok THEN {} ELSE {"enterprise addons path not found"})

\* Lines 214-226: the end of the activation, and the validation of the
\* enterprise setup on the production tier
ValidateEnterprise ==
    /\ bs_pc = "langs"
    /\ lang_idx > Len(lang_codes)
    /\ \E code \in BOOLEAN, web_ent_installed \in BOOLEAN,
          ent_dir_ok \in BOOLEAN :
        LET problems == Problems(code, web_ent_installed, ent_dir_ok)
            printed == IF activated # <<>>
                       THEN {[msg |-> "Activated languages", about |-> activated]}
                       ELSE {}
        IN IF bs_tier = "prod"
           THEN /\ bs_log' = bs_log \cup printed \cup
                     {IF problems # {}
                      THEN [msg |-> "Enterprise DB validation FAILED",
                            about |-> problems]
                      ELSE Msg("Enterprise DB validation PASSED")}
                /\ bs_failed' = IF problems # {}
                                THEN bs_failed \cup
                                     {[step |-> "validate", how |-> problems]}
                                ELSE bs_failed
                /\ bs_steps' = Append(bs_steps, "validate")
           ELSE /\ code /\ web_ent_installed /\ ent_dir_ok
                /\ bs_log' = bs_log \cup printed
                /\ UNCHANGED <<bs_failed, bs_steps>>
    /\ bs_pc' = "user"
    /\ UNCHANGED <<odoo_langs, bs_tier, user_groups, lang_codes, lang_idx,
                   activated, group_ids, res_users, bs_rc>>
    /\ UNCHANGED nonErpVars

\* Lines 228-248: the default user is written or created; the call raises
\* or not
EnsureUser ==
    /\ bs_pc = "user"
    /\ \E raises \in BOOLEAN :
        IF raises
        THEN /\ bs_log' = bs_log \cup {Msg("Failed to bootstrap user")}
             /\ bs_failed' = bs_failed \cup
                                {[step |-> "user", how |-> "raise"]}
             /\ bs_rc' = 1
             /\ UNCHANGED res_users
        ELSE /\ bs_log' = bs_log \cup
                  {IF res_users.exists THEN Msg("Updated user")
                   ELSE Msg("Created user")}
             /\ res_users' =
                   [exists |-> TRUE,
                    group_ids |-> IF group_ids # <<>> \/ ~res_users.exists
                                  THEN group_ids ELSE res_users.group_ids]
             /\ bs_rc' = 0
             /\ UNCHANGED bs_failed
    /\ bs_steps' = Append(bs_steps, "user")
    /\ bs_pc' = "done"
    /\ UNCHANGED <<odoo_langs, bs_tier, user_groups, lang_codes, lang_idx,
                   activated, group_ids>>
    /\ UNCHANGED nonErpVars

InitErp ==
    /\ BootIdle
    /\ TicketIdle
    /\ ParamIdle
    /\ ProvIdle
    /\ InstIdle
    /\ bs_pc = "rtlcss"
    /\ odoo_langs \in OdooLangsValues
    /\ bs_tier \in TierValues
    /\ user_groups \in UserGroupsValues
    /\ lang_codes = <<>>
    /\ lang_idx = 0
    /\ activated = <<>>
    /\ group_ids = <<>>
    /\ res_users \in {[exists |-> FALSE, group_ids |-> <<>>],
                      [exists |-> TRUE, group_ids |-> <<1>>]}
    /\ bs_steps = <<>>
    /\ bs_log = {}
    /\ bs_failed = {}
    /\ bs_rc = -1

NextErp ==
    \/ EnsureRtlcss
    \/ InstallRequirements
    \/ ResolveGroupsStep
    \/ ActivateLang
    \/ ValidateEnterprise
    \/ EnsureUser

SpecErp == InitErp /\ [][NextErp]_vars

-----------------------------------------------------------------------------
(***************************************************************************)
(* Properties of the workflow-tool bootstrapper                            *)
(***************************************************************************)

\* The payloads of SettingsShapes that carry an owner flag under
\* "userManagement" (directly or inside the "data" wrapper).
NestedOwnerShapes == {1, 4, 5, 7}

\* The three payloads as the specification writes them: the first nests its
\* flag under "userManagement", the other two carry it at the top level.
FlatOwnerShapes == {1, 2, 3}

\* C1 (as stated): whenever the settings payload main() obtained from the chosen
\* base URL is {"userManagement": {"isInstanceOwnerSetUp": true}},
\* {"isInstanceOwnerInitialized": true} or {"showSetupOnFirstLoad": false},
\* no POST is issued and main() returns 0.
C1_FlatShapesShortCircuit ==
    seen_shape \in FlatOwnerShapes =>
        /\ posts = <<>>
        /\ pc = "done" => exit_code = 0

\* C1 (amended): whenever the payload main() inspects carries, under
\* "userManagement" (after unwrapping "data"), isInstanceOwnerSetUp true,
\* isInstanceOwnerInitialized true or showSetupOnFirstLoad false, no POST is
\* issued during the run and main() returns 0.
C1_NestedShapesShortCircuit ==
    seen_shape \in NestedOwnerShapes =>
        /\ posts = <<>>
        /\ pc \in {"check", "done"}
        /\ pc = "done" => exit_code = 0

\* C1 witness: a run that saw {"userManagement": {"showSetupOnFirstLoad":
\* false}} has ended with exit code 0 and without a POST.
C1_Witness ==
    /\ pc = "done"
    /\ seen_shape = 5
    /\ exit_code = 0
    /\ posts = <<>>

\* C2: once a setup attempt (first POST, legacy POST or fallback probe) was
\* answered 409 with a body containing "already", no further POST follows and
\* main() returns 0, whatever the settings endpoint answers afterwards.
C2_ConflictAlreadyIsSuccess ==
    conflict =>
        /\ pc \in {"wfr", "done"}
        /\ pc = "wfr" => wfr.caller = "recheck"
        /\ pc = "done" => exit_code = 0

\* C2 witness: the second (legacy) POST was answered 409 "already", the
\* re-check of the settings endpoint ran, and main() returned 0.
C2_Witness ==
    /\ conflict
    /\ pc = "done"
    /\ exit_code = 0
    /\ Len(posts) = 2
    /\ wfr.caller = "recheck"


\* The messages that say the owner exists already
InitializedMessages == {"Owner already set up", "Instance INITIALIZED"}

\* The three grounds for success: a settings payload held when main()
\* checked, or returned to a re-check, showed the owner as set up; the last
\* POST returned 200 or 201; the last POST was answered 400 or 409 with a
\* message saying the owner exists already.
OwnerFoundConfigured ==
    seen_shape \in NestedOwnerShapes \/ rechecked \in NestedOwnerShapes

OwnerCreated == ~answer.raised /\ answer.status \in {200, 201}

AlreadyInitializedAnswer ==
    answer.status \in {400, 409} /\ answer.detail \in InitializedMessages

\* C13: a finished run of main() has exit code 0 or 1, and it has 0 only
\* when the owner was found configured, a POST was answered with a created
\* status or a conflict / already-initialized answer was received; a run
\* that ends without any of the three has exit code 1.
C13_ExitCodeGrounds ==
    pc = "done" =>
        /\ exit_code \in {0, 1}
        /\ exit_code = 0 =>
               OwnerFoundConfigured \/ OwnerCreated \/ AlreadyInitializedAnswer

\* A run that went through all fallback probes without any of the three
\* grounds and ended with 1
C13_Witness ==
    /\ pc = "done"
    /\ exit_code = 1
    /\ Len(posts) > 3
    /\ rechecked # 0
    /\ ~OwnerFoundConfigured /\ ~OwnerCreated /\ ~AlreadyInitializedAnswer


\* C20: no POST is issued before a candidate has answered the settings
\* endpoint with a payload; from then on the base URL is that candidate and
\* does not change, the settings endpoint is polled on that URL only, and
\* every POST goes to that URL.
C20_BaseUrlFixed ==
    /\ [](base_url = 0 => posts = <<>>)
    /\ [](base_url # 0 =>
            /\ wfr.url = base_url
            /\ \A i \in 1..Len(posts) : posts[i].base = base_url)
    /\ [][base_url # 0 => base_url' = base_url]_vars

\* The second candidate was chosen after the first one failed, POSTs were
\* sent and the settings were polled again after them
C20_Witness ==
    /\ base_url = 2
    /\ Len(posts) >= 1
    /\ rechecked # 0
    /\ pc = "done"


\* C21: if no candidate ever returns a usable settings payload (base_url
\* stays ""), the waiting phase polls the candidates in turn, each poll on
\* the candidate the loop is at, and main() eventually ends; it ends only
\* once the global deadline of max(10, total_wait) seconds has passed, with
\* exit code 1 and without having issued any POST.
C21_WaitEndsAtDeadline ==
    /\ <>(base_url # 0 \/ pc = "done")
    /\ []((pc = "done" /\ base_url = 0) =>
            /\ exit_code = 1
            /\ posts = <<>>
            /\ deadline = Max(10, total_wait)
            /\ now >= deadline)
    /\ []((pc = "wfr" /\ base_url = 0) =>
            wfr.url = cand /\ cand \in 1..NumCandidates)
    /\ [][base_url' = 0 => cand' \in {cand, cand + 1, 1}]_vars

\* A run with the longer wait that ended without a base URL, after the last
\* candidate's poll ran past the deadline
C21_Witness ==
    /\ pc = "done"
    /\ base_url = 0
    /\ total_wait = MaxWait
    /\ now > deadline
    /\ cand = NumCandidates
    /\ exit_code = 1


\* C22: during the waiting phase a name-resolution failure on a candidate
\* ends the polling of that candidate at once: no poll of a candidate is
\* still running after a GET of it failed to resolve the name; and the step
\* that ends a poll before its window is over takes no time, moves on to
\* the next candidate and does not end the run.
C22_DnsFailureEndsPolling ==
    /\ [](~(pc = "wfr" /\ wfr.abort_dns /\ wfr.last_err \in GaiErrors))
    /\ [][(pc = "wfr" /\ wfr.abort_dns /\ now < wfr.deadline /\ pc' = "for") =>
            /\ now' = now
            /\ cand' = cand + 1
            /\ exit_code' = -1]_vars

\* The setup endpoints in the order of their priority: the current one, then
\* the two legacy ones
PriorityOrder == <<"/owner/setup", "/setup", "/user-management/setup">>

\* The last POST met the success criteria (a created status)
MetSuccess == answer.status \in {200, 201}

\* C23: the owner credentials are POSTed to {prefix}/owner/setup first, then
\* to {prefix}/setup, then to {prefix}/user-management/setup; the run moves
\* to the next of them whenever an attempt met neither the success nor the
\* conflict criteria, so it does not fail before all three were tried; and a
\* created status on any of them ends the run with exit code 0.
C23_EndpointsInPriorityOrder ==
    /\ \A i \in 1..Len(posts) :
          i <= 3 => posts[i].path = Path(RestPrefix(settings), PriorityOrder[i])
    /\ (pc = "done" /\ exit_code = 1 /\ posts # <<>>) => Len(posts) >= 3
    /\ (pc = "done" /\ MetSuccess) => exit_code = 0

\* A step in which a fallback probe POST raised an HTTPError
ProbeAnswered ==
    /\ pc = "probe"
    /\ posts' # posts
    /\ answer'.raised
    /\ answer'.status # 0

\* After the step the next path of the probe list is tried, or after the
\* last path the settings are polled once more
NextPathTried ==
    IF path_idx < Len(ProbePaths(RestPrefix(settings)))
    THEN pc' = "probe" /\ path_idx' = path_idx + 1 /\ exit_code' = -1
    ELSE pc' = "wfr" /\ wfr'.caller = "final" /\ exit_code' = -1

\* The step ends the run with exit code 1
RunFailed == pc' = "done" /\ exit_code' = 1

\* The answer of the step is a conflict / already-initialized response
ConflictAnswered ==
    answer'.status \in {400, 409} /\ HasMarker(answer'.detail)

\* C24 as stated: on a probe, HTTP 404 makes the run try the next path, and
\* any other client error (4xx) that is no conflict / already-initialized
\* response ends the run with exit code 1 without a further path.
C24_OtherClientErrorsFatal ==
    [][ProbeAnswered =>
        /\ answer'.status = 404 => NextPathTried
        /\ (answer'.status \in (400..499) \ {404} /\ ~ConflictAnswered)
              => RunFailed]_vars

\* C24 amended: on a probe, HTTP 404, 401 and 403 make the run try the next
\* path; a conflict / already-initialized response ends the run with exit
\* code 0; every other HTTP error ends the run with exit code 1 without a
\* further path.
C24_NotFoundAndAuthErrorsSkipped ==
    [][ProbeAnswered =>
        /\ answer'.status \in {404, 401, 403} => NextPathTried
        /\ ConflictAnswered => (pc' = "done" /\ exit_code' = 0)
        /\ (answer'.status \notin {404, 401, 403} /\ ~ConflictAnswered)
              => RunFailed]_vars

\* The fifth probe was answered 400 without an already-initialized message
\* and the run ended with 1 and the remaining paths untried
C24_Witness ==
    /\ pc = "done"
    /\ exit_code = 1
    /\ path_idx = 5
    /\ Len(posts) = 6
    /\ answer = [raised |-> TRUE, status |-> 400, detail |-> "Bad request"]

\* The re-poll after the probe list is running
FinalPoll == pc = "wfr" /\ wfr.caller = "final"

\* C25: when the probe list is used up without a success (and without a
\* fatal answer), the settings endpoint of the fixed base URL is polled once
\* more; the run then ends with exit code 0 if the payload returned shows
\* the owner as set up, and with exit code 1 otherwise, also when the poll
\* fails.
C25_FinalPollDecides ==
    /\ [](FinalPoll =>
            /\ wfr.url = base_url
            /\ path_idx = Len(ProbePaths(RestPrefix(settings)))
            /\ Len(posts) = post_idx + path_idx
            /\ rechecked = 0
            /\ exit_code = -1)
    /\ [][(pc = "probe" /\ path_idx = Len(ProbePaths(RestPrefix(settings)))
              /\ pc' # "probe") =>
            \/ pc' = "wfr" /\ wfr'.caller = "final"
            \/ pc' = "done" /\ (OwnerCreated' \/ AlreadyInitializedAnswer'
                                 \/ exit_code' = 1)]_vars
    /\ [][(FinalPoll /\ pc' # "wfr") =>
            /\ pc' = "done"
            /\ posts' = posts
            /\ exit_code' = IF rechecked' \in NestedOwnerShapes THEN 0 ELSE 1]_vars

\* All probes were answered "not found", the re-poll returned a payload
\* that shows the owner as set up, and the run ended with 0
C25_Witness ==
    /\ pc = "done"
    /\ wfr.caller = "final"
    /\ answer = [raised |-> TRUE, status |-> 404, detail |-> ""]
    /\ rechecked = 1
    /\ exit_code = 0

-----------------------------------------------------------------------------
(***************************************************************************)
(* Properties of the helpdesk ticket extension                             *)
(***************************************************************************)

\* The ids a call lists in one replace command for sla_ids, <<>> when its
\* sla_ids is anything else
ListedForSet(call) ==
    IF /\ call.op \in {"create", "write"}
       /\ call.ok
       /\ "sla_ids" \in DOMAIN call.vals
       /\ Len(call.vals["sla_ids"]) = 1
       /\ call.vals["sla_ids"][1].op = 6
    THEN call.vals["sla_ids"][1].ids
    ELSE <<>>

\* C3: setting two SLA policies in one "set" operation (a replace command
\* listing two ids in create or in write, or a multi-select in the form)
\* leaves exactly one policy attached, the first in the order the caller
\* listed them.
C3_SetKeepsFirstListed ==
    /\ Len(ListedForSet(last)) = 2
          => ticket.sla_ids = {ListedForSet(last)[1]}
    /\ (form.open /\ form.field = "sla_ids" /\ Len(form.edit) = 2)
          => form.rec.sla_ids = <<form.edit[1]>>

\* C4: after any sequence of ticket create and write operations, whatever
\* commands are passed for sla_ids, the ticket has at most one SLA policy
\* attached.
C4_AtMostOneSla == ticket.exists => Cardinality(ticket.sla_ids) <= 1


\* A write that went through and whose vals hold a field of the SLA trigger
\* set
TriggerWrite(call) ==
    /\ call.op = "write"
    /\ call.ok
    /\ DOMAIN call.out \cap SlaResetTrigger # {}

\* C5 (as stated): after a write that changes a field of the SLA trigger
\* set, every status whose policy no longer matches the ticket is deleted,
\* except the statuses already flagged reached, which are kept.
C5_ReachedStatusesKept ==
    TriggerWrite(last) =>
        /\ \A st \in statuses : ~st.reached => st.sla \in SlaFind(ticket)
        /\ \A st \in last.to_unlink : ~st.reached

\* C5 (amended): after a write that changes a field of the SLA trigger set,
\* every status whose policy no longer matches the ticket is deleted,
\* reached or not, and no status whose policy still matches is deleted.
C5_ObsoleteStatusesDeleted ==
    TriggerWrite(last) =>
        /\ \A st \in statuses : st.sla \in SlaFind(ticket)
        /\ \A st \in last.to_unlink : st.sla \notin SlaFind(ticket)

\* A trigger write has deleted a reached status while the ticket keeps the
\* status of a policy that still matches.
C5_Witness ==
    /\ TriggerWrite(last)
    /\ \E st \in last.to_unlink : st.reached
    /\ statuses # {}


\* _sla_find looks at the ticket: its team uses SLA and it has not opted out
SlaTracked(rec) ==
    /\ rec.exists
    /\ rec.team_id # 0
    /\ TeamUseSla[rec.team_id]
    /\ ~rec.sla_opt_out

\* The criteria of a policy other than its categories hold for the ticket
OtherCriteriaHold(rec, sla) ==
    /\ SlaTeam[sla] \in {0, rec.team_id}
    /\ SlaPriorityAll[sla] \/ SlaPriority[sla] = rec.priority
    /\ SlaStageSeq[sla] >= rec.stage_id
    /\ SlaTags[sla] = {} \/ SlaTags[sla] \cap rec.tag_ids # {}
    /\ SlaPartners[sla] = {} \/ TicketPartner \in SlaPartners[sla]

\* The category and its ancestors, by the parent links
RECURSIVE Chain(_)
Chain(cat) == IF cat = 0 THEN {} ELSE {cat} \cup Chain(CatParent[cat])

FiveRestrictions(rec, sla) ==
    /\ SlaTeam[sla] = rec.team_id \/ SlaTeam[sla] = 0
    /\ SlaPriority[sla] = rec.priority \/ SlaPriorityAll[sla]
    /\ SlaStageSeq[sla] >= rec.stage_id
    /\ SlaCategories[sla] = {}
          \/ SlaCategories[sla] \cap Chain(rec.category_id) # {}
    /\ SlaTags[sla] = {} \/ SlaTags[sla] \cap rec.tag_ids # {}

\* The policies the form may select, when an onchange has returned a domain
FormSlaDomain ==
    IF form.open /\ "sla_ids" \in form.domains THEN form.sla_ids ELSE {}

RECURSIVE NearestTeamAncestor(_)
NearestTeamAncestor(cat) ==
    IF cat = 0 THEN 0
    ELSE IF CatTeam[cat] # 0 THEN cat
         ELSE NearestTeamAncestor(CatParent[cat])

\* The team C8 resolves for a category: its own, else the nearest
\* ancestor's, else a default team of the company
ResolvedTeam(cat) ==
    IF NearestTeamAncestor(cat) # 0
    THEN CatTeam[NearestTeamAncestor(cat)]
    ELSE CHOOSE t \in Teams :
            /\ TeamCompany[t] = EnvCompany
            /\ \A u \in Teams : TeamCompany[u] = EnvCompany => t <= u

\* The category a call changes the ticket to, 0 when it changes none
CategoryChanged(call) ==
    IF call.op \in {"create", "write"} /\ call.ok
    THEN VGet(call.vals, "category_id", 0)
    ELSE 0

\* C8: on every category change of a ticket, through the form onchange,
\* create or write, the ticket's team is set to the category's own team if
\* it has one, else to the team of the nearest ancestor category that has a
\* team, else to a default team of the ticket's company.
C8_CategoryChangeSetsTeam ==
    /\ CategoryChanged(last) # 0
          => ticket.team_id = ResolvedTeam(CategoryChanged(last))
    /\ (form.open /\ form.field = "category_id")
          => form.rec.team_id = ResolvedTeam(form.edit[1])

\* The assignee a call installs without the caller naming one, 0 when none
InstalledUser(call) ==
    IF /\ call.op \in {"create", "write"}
       /\ VGet(call.vals, "category_id", 0) # 0
       /\ VGet(call.vals, "user_id", 0) = 0
    THEN VGet(call.out, "user_id", 0)
    ELSE 0

\* The assignee before the form was opened
UserBeforeForm == IF ticket.exists THEN ticket.user_id ELSE 0

\* C9: on a category change through onchange, create or write, the
\* extension sets the assignee to the category's default user only if that
\* user is a member of the resolved team and the resolved team's assignment
\* method is "category"; in no other case does the category change install
\* the category's default user as assignee.
C9_CategoryUserOnlyIfMember ==
    /\ InstalledUser(last) # 0 =>
          LET team == VGet(last.out, "team_id", 0)
          IN /\ InstalledUser(last) = CatUser[last.vals["category_id"]]
             /\ team # 0
             /\ InstalledUser(last) \in TeamMembers[team]
             /\ TeamAssignMethod[team] = "category"
    /\ (/\ form.open
        /\ form.field = "category_id"
        /\ form.rec.user_id # 0
        /\ form.rec.user_id # UserBeforeForm) =>
          /\ form.rec.user_id = CatUser[form.edit[1]]
          /\ form.rec.team_id # 0
          /\ form.rec.user_id \in TeamMembers[form.rec.team_id]
          /\ TeamAssignMethod[form.rec.team_id] = "category"

\* A create without assignee has installed the default user of category A,
\* a member of A's team, which assigns by category.
C9_Witness ==
    /\ last.op = "create"
    /\ last.ok
    /\ InstalledUser(last) = 1
    /\ ticket.user_id = CatUser[ticket.category_id]
    /\ ticket.user_id \in TeamMembers[ticket.team_id]

\* The record has no team, no assignee, or an assignee of its team
AssigneeInTeam(rec) ==
    (rec.team_id # 0 /\ rec.user_id # 0) =>
        rec.user_id \in TeamMembers[rec.team_id]

\* The record the last call would have stored had it not failed: the ticket
\* (which a failed call leaves as it was) with the team and the assignee the
\* call passed on
WouldBe ==
    LET before == IF ticket.exists THEN ticket ELSE DefaultRecord
    IN [before EXCEPT
           !.category_id = VGet(last.out, "category_id", before.category_id),
           !.team_id = VGet(last.out, "team_id", before.team_id),
           !.user_id = VGet(last.out, "user_id", before.user_id)]

\* C28: a ticket that has both a team and an assignee has its assignee among
\* the members of the team; a create or write fails exactly when it leaves
\* the ticket without category or would leave an assignee outside the team
\* given or derived (when the call names the team or the assignee), and a
\* failed call leaves the ticket as it was.
C28_AssigneeIsTeamMember ==
    /\ [](ticket.exists => AssigneeInTeam(ticket))
    /\ []((last.op \in {"create", "write"} /\ ~last.ok) =>
            \/ WouldBe.category_id = 0
            \/ ~AssigneeInTeam(WouldBe))
    /\ [][(last'.op \in {"create", "write"} /\ ~last'.ok) =>
            ticket' = ticket]_vars

\* A ticket of team 2 with assignee 2 was written with a category of team
\* 1, of which user 2 is no member: the write failed and the ticket kept
\* its team and its category
C28_Witness ==
    /\ last.op = "write"
    /\ ~last.ok
    /\ DOMAIN last.vals = {"category_id"}
    /\ last.out.team_id = 1
    /\ ticket.team_id = 2
    /\ ticket.user_id = 2
    /\ ticket.category_id # last.vals.category_id

\* C27: a ticket whose SLA opt-out flag is set ignores SLA policies:
\* _sla_find returns no policy for it and it has no SLA status record,
\* whether the flag was set by the create (also one that names a policy) or
\* by a write (which removes the status records the ticket had).
C27_OptOutHasNoStatuses ==
    (ticket.exists /\ ticket.sla_opt_out) =>
        /\ SlaFind(ticket) = {}
        /\ statuses = {}

\* A ticket with a reached status record, which the core apply keeps, was
\* written with the flag alone: the record was removed
C27_Witness ==
    /\ last.op = "write"
    /\ last.ok
    /\ last.vals = [sla_opt_out |-> TRUE]
    /\ \E st \in last.to_unlink : st.reached
    /\ ticket.sla_opt_out
    /\ statuses = {}

\* C30: for a ticket with at most one attached SLA policy, a write whose
\* values contain none of the SLA reset trigger fields deletes none of the
\* ticket's SLA status records: the cleanup unlinks nothing and the status
\* records after the write are those before it.
C30_NonTriggerWriteKeepsStatuses ==
    /\ []((/\ last.op = "write"
           /\ DOMAIN last.vals \cap SlaResetTrigger = {})
              => last.to_unlink = {})
    /\ [][\A vals \in MatchWriteInputs :
            (/\ DOMAIN vals \cap SlaResetTrigger = {}
             /\ ticket.exists
             /\ Cardinality(ticket.sla_ids) <= 1
             /\ WriteStep(vals))
                => /\ statuses' = statuses
                   /\ last'.to_unlink = {}]_vars

\* A write of the stage alone succeeded on a ticket that keeps a status
\* record of a policy _sla_find no longer returns for it: the cleanup,
\* had it run, would have removed the record
C30_Witness ==
    /\ last.op = "write"
    /\ last.ok
    /\ DOMAIN last.vals = {"stage_id"}
    /\ Cardinality(ticket.sla_ids) <= 1
    /\ last.to_unlink = {}
    /\ \E st \in statuses : st.sla \notin SlaFind(ticket)

\* What a vals dictionary gives for a field: <<value>>, or <<>> without the key
Given(vals, k) == IF k \in DOMAIN vals THEN <<vals[k]>> ELSE <<>>

\* C19: propagation on tickets is one-way, category -> team -> assignee.
\* create and write pass category_id on as the caller gave it (or left it
\* out); a write whose values do not contain category_id is passed on with
\* its team_id and user_id as given; a form edit of a field other than the
\* category leaves the category of the form's record as it was; and the
\* category of an existing ticket changes only in a write whose values
\* contain that category.
C19_CategoryNeverFollowsTeam ==
    /\ [](last.op \in {"create", "write"} =>
            Given(last.out, "category_id") = Given(last.vals, "category_id"))
    /\ []((last.op = "write" /\ "category_id" \notin DOMAIN last.vals) =>
            /\ Given(last.out, "team_id") = Given(last.vals, "team_id")
            /\ Given(last.out, "user_id") = Given(last.vals, "user_id"))
    /\ []((last.op = "create" /\ last.ok) =>
            <<ticket.category_id>> = Given(last.vals, "category_id"))
    /\ []((form.open /\ form.field # "category_id") =>
            form.rec.category_id = FormRecord.category_id)
    /\ [][(ticket.exists /\ ticket'.exists
              /\ ticket'.category_id # ticket.category_id) =>
            /\ last'.op = "write"
            /\ Given(last'.vals, "category_id") = <<ticket'.category_id>>]_vars

\* A ticket whose category carries team 1 was written with team 2 and an
\* assignee and no category: the write went through and the category stayed.
C19_Witness ==
    /\ last.op = "write"
    /\ last.ok
    /\ DOMAIN last.vals = {"team_id", "user_id"}
    /\ ticket.exists
    /\ CatTeam[ticket.category_id] = 1
    /\ ticket.team_id = 2
    /\ ticket.user_id = 2

-----------------------------------------------------------------------------
(***************************************************************************)
(* Properties of the configuration-parameter setter                        *)
(***************************************************************************)

\* C10: for any key and any value v, in a sequence of calls of
\* _ensure_param(env, key, v) with the same v and no other writer of the
\* key, at most the first call returns True ("changed") and every later call
\* returns False ("unchanged").
C10_ChangedAtMostOnce ==
    \A key \in ParamKeys : ep_log[key].repeated => ~ep_log[key].changed


-----------------------------------------------------------------------------
(***************************************************************************)
(* Properties of the credential provisioner                                *)
(***************************************************************************)

\* A run of main() that opened the database and in which no call of the
\* ERP raised and no file write failed
CleanRun ==
    /\ run.n >= 1
    /\ run.opened
    /\ ~run.raised
    /\ ~run.write_failed

\* C11: a run of main() that starts with a non-empty credential cache file
\* (and in which no ERP call raises and no write fails) leaves the content
\* of the host-visible cache file as it was and writes no other key value
\* to the container-local mirror.
C11_CachedCredentialKept ==
    (CleanRun /\ run.host_before # 0)
        => /\ run.host_after = run.host_before
           /\ run.cont_after \in {run.cont_before, run.host_before}


\* The messages that say the database does not exist
DatabaseMissingMessages ==
    { <<"database", "u", "does", "not", "exist">>,
      <<"FATAL:", "Database", "u", "Does", "Not", "Exist">> }

\* C15: when opening the database fails with a message saying the database
\* does not exist, main() returns 0; when it fails with any other message,
\* main() returns 1 and writes to the error stream; in both cases nothing
\* is written to the database or to the secrets files.
C15_DatabaseOpenFailure ==
    (run.n >= 1 /\ ~run.opened /\ run.registry # <<>>) =>
        /\ run.registry \in DatabaseMissingMessages => run.rc = 0
        /\ run.registry \notin DatabaseMissingMessages
               => run.rc = 1 /\ run.stderr
        /\ ~run.wrote
        /\ run.host_after = run.host_before
        /\ run.cont_after = run.cont_before

\* C17: a run that finds a credential under the purpose "n8n" and no cache
\* file (and in which no ERP call raises and no write fails) creates a
\* credential and persists its value in the cache file.
C17_SecondCredentialCreated ==
    (CleanRun /\ run.had_key /\ run.host_before = 0)
        => /\ run.created_key
           /\ run.key_val # 0
           /\ run.host_after = run.key_val

\* C18: a run without cached credential that generates one (no write
\* failing) leaves its value in both files, and a run that starts with a
\* value in the cache file takes it as the cached credential.
C18_GeneratedKeyPersistedAndFound ==
    /\ (CleanRun /\ run.host_before = 0 /\ run.created_key
        /\ run.key_val # 0)
           => /\ run.host_after = run.key_val
              /\ run.cont_after = run.key_val
    /\ (run.n >= 1 /\ run.opened /\ run.host_before # 0)
           => run.existing_secret = run.host_before

\* C29: every call of _ensure_api_key in a run that opened the database
\* returns a pair, also with the credential model missing, the cached
\* value not installable or the model without _generate_key, so the run
\* does not fail at the unpacking and ends with the exit code 0.
C29_EnsureApiKeyAlwaysReturnsPair ==
    (run.n >= 1 /\ run.opened)
        => /\ ~run.no_pair
           /\ ~run.crashed
           /\ run.rc = 0

-----------------------------------------------------------------------------
(***************************************************************************)
(* Properties of the module installer                                      *)
(***************************************************************************)

\* The names of a sequence
Names(list) == {list[i] : i \in 1..Len(list)}

\* C12: for the file with the lines "crm, # comment" and "sale;stock" the
\* parsed list is crm, sale, stock in that order; a parsed list has no
\* duplicates and no name with a comment or separator character; and no
\* module whose state was "installed", "to install" or "to upgrade" when
\* main() inspected it is among the modules passed to the command line.
C12_ParsedListAndInstallSet ==
    inst.n >= 1 =>
        /\ (modules_txt.exists /\ modules_txt.lines = ExampleLines)
               => inst.modules = <<Name_crm, Name_sale, Name_stock>>
        /\ \A i, j \in 1..Len(inst.modules) :
               inst.modules[i] = inst.modules[j] => i = j
        /\ \A m \in Names(inst.modules) :
               \A k \in 1..Len(m) : m[k] \notin {"#", ",", ";", " ", "\n"}
        /\ \A m \in Names(inst.mods) :
               /\ m \in Names(inst.modules)
               /\ m \in DOMAIN inst.states
               /\ inst.states[m] \notin
                      {"installed", "to install", "to upgrade"}

\* The example file was parsed and its two modules that are not installed
\* were passed to the command line, crm being installed already
C12_Witness ==
    /\ inst.n >= 1
    /\ modules_txt.lines = ExampleLines
    /\ inst.cli_calls = 1
    /\ inst.mods = <<Name_sale, Name_stock>>
    /\ inst.states[Name_crm] = "installed"

\* The modules of the parsed list that have a row and are neither installed
\* nor queued
Installable(list, states) ==
    {m \in Names(list) :
        /\ m \in DOMAIN states
        /\ states[m] \notin {"installed", "to install", "to upgrade"}}

\* C14: main() returns 0 when the parsed list is empty, when no module of the
\* list is left to install, or when the command line exits with status 0;
\* 2 when the list is not empty and no database name is set; 4 when the
\* command line exits with another status.  The command line runs at most
\* once per run, and names without a row are reported while the modules left
\* to install are still passed to the command line.
C14_ExitCodes ==
    inst.n >= 1 =>
        LET todo == Installable(inst.modules, inst.states)
        IN /\ inst.cli_calls \in {0, 1}
           /\ inst.modules = <<>> => inst.rc = 0 /\ inst.cli_calls = 0
           /\ (inst.modules # <<>> /\ inst_db = <<>>)
                  => inst.rc = 2 /\ inst.cli_calls = 0
           /\ (inst.modules # <<>> /\ inst_db # <<>> /\ todo = {})
                  => inst.rc = 0 /\ inst.cli_calls = 0
           /\ (inst.modules # <<>> /\ inst_db # <<>> /\ todo # {})
                  => /\ inst.cli_calls = 1
                     /\ Names(inst.mods) = todo
                     /\ inst.outcome = CliSucceeds => inst.rc = 0
                     /\ (~inst.outcome.raised
                         /\ inst.outcome.returncode # 0) => inst.rc = 4
           /\ (inst.modules # <<>> /\ inst_db # <<>>)
                  => Names(inst.not_found)
                         = Names(inst.modules) \ DOMAIN inst.states

\* A run that reported a name without a row, passed another module to the
\* command line and returned 4 on its exit status 2
C14_Witness ==
    /\ inst.n >= 1
    /\ inst.not_found # <<>>
    /\ inst.cli_calls = 1
    /\ ~inst.outcome.raised
    /\ inst.outcome.returncode = 2
    /\ inst.rc = 4

-----------------------------------------------------------------------------
(***************************************************************************)
(* Properties of the ERP bootstrapper                                      *)
(***************************************************************************)

\* The failures of the steps before the user step
EarlierFailures == {f \in bs_failed : f.step # "user"}

\* The message main() or its helper prints about a failure, if it prints one
Reported(f) ==
    CASE f.step = "rtlcss" ->
            [msg |-> "Warning: rtlcss not available after attempted install",
             about |-> <<>>] \in bs_log
      [] f.step = "requirements" ->
            [msg |-> "Warning: failed to install requirements",
             about |-> <<>>] \in bs_log
      [] f.step = "lang" ->
            [msg |-> "Warning: failed to activate language",
             about |-> f.how] \in bs_log
      [] f.step = "validate" ->
            [msg |-> "Enterprise DB validation FAILED",
             about |-> f.how] \in bs_log
      [] OTHER -> FALSE

\* The failures the code does not see: an exception of the CSS-tool step
\* (except: pass) and an error status of pip (os.system's value is dropped)
Unseen(f) ==
    \/ f.step = "rtlcss" /\ f.how = "raise"
    \/ f.step = "requirements" /\ f.how = "pip_failed"

\* The user step ran after the other steps, and main() returned 1 exactly
\* when it failed
UserStepDecides ==
    /\ bs_steps[Len(bs_steps)] = "user"
    /\ bs_rc \in {0, 1}
    /\ bs_rc = 1 <=> [step |-> "user", how |-> "raise"] \in bs_failed

GroupsTokens ==
    IF user_groups # <<>> THEN NormalizeTokensStr(user_groups)
    ELSE NormalizeTokensList(USER_GROUPS)

\* The shorthand names and the group each stands for
ShorthandGroup ==
    [internal |-> 1, portal |-> 2, public |-> 3, admin |-> 4, settings |-> 4,
     manager |-> 4]

\* The group a token names: by its shorthand (in any case), or directly by a
\* dotted identifier of a group; 0 for an unknown token
GroupOf(token) ==
    IF Len(token) # 1 THEN 0
    ELSE IF LowerItem(token[1]) \in DOMAIN ShorthandGroup
         THEN ShorthandGroup[LowerItem(token[1])]
    ELSE IF Ref(token[1]).model = "res.groups" THEN Ref(token[1]).id
    ELSE 0

\* C26: after resolve_groups, the result holds the group of every known
\* token once, in the order of the tokens' first occurrence, and for every
\* unknown token a warning naming it was logged.
C26_UnknownTokensLoggedAndSkipped ==
    bs_pc \notin {"rtlcss", "requirements", "groups"} =>
        /\ \A i, j \in 1..Len(group_ids) :
               group_ids[i] = group_ids[j] => i = j
        /\ Range(group_ids) =
               {GroupOf(GroupsTokens[k]) : k \in 1..Len(GroupsTokens)} \ {0}
        /\ \A i, j \in 1..Len(group_ids) :
               i < j =>
                 \E k \in 1..Len(GroupsTokens) :
                    /\ GroupOf(GroupsTokens[k]) = group_ids[i]
                    /\ \A l \in 1..k : GroupOf(GroupsTokens[l]) # group_ids[j]
        /\ \A k \in 1..Len(GroupsTokens) :
               GroupOf(GroupsTokens[k]) = 0 =>
                 \E m \in bs_log :
                    /\ m.msg = "Warning: group xmlid not found"
                    /\ m.about = GroupsTokens[k]

=============================================================================
